---- MODULE Spec2Model ----
(***************************************************************************)
(* Ephemeral credential exchange of the slyde bot: the TokenService        *)
(* registries (login tokens, pending RIDs, claim codes), the miniapp       *)
(* RidService registry, their cleanup timers, and the HTTP handlers of     *)
(* server.ts that consume them.                                            *)
(*                                                                         *)
(* Time.  The clock `now` stands for Date.now() in units of 2.5 minutes,   *)
(* so that every duration of the code is a whole number: tokenTTL (5 min)  *)
(* is 2, ridTTL and claimCodeTTL (15 min) are 6, and the 5 minute window   *)
(* of the global RID lookup is 2.                                          *)
(*                                                                         *)
(* Secrets.  crypto.randomBytes(32) and crypto.randomBytes(16) are         *)
(* modelled as fresh values: the n-th login token drawn is n, and the n-th *)
(* RID drawn, by either RID registry, is n, so that no two records, of one *)
(* RID registry or of the two, have the same RID.                          *)
(* The claim code is drawn by Math.random from a small alphabet and        *)
(* generateClaimCode does not look for an existing record, so the model    *)
(* draws it from the finite set Codes and the same code can be drawn       *)
(* again.                                                                  *)
(*                                                                         *)
(* Atomicity.  Every TokenService / RidService method is synchronous, and  *)
(* the handlers call them without an await in between, so each call and    *)
(* each handler body up to its first await is one step.                    *)
(*                                                                         *)
(* Specifications.  Spec drives the two services by their methods, called  *)
(* in any order with any argument, with the clock and the sweep timers:    *)
(* every registry state a sequence of requests can produce is a state of   *)
(* Spec.  What the handlers of server.ts add to the methods (the limiters, *)
(* the audit entries, the await of the identity backend, the responses) is *)
(* followed in the specifications of the routes: SpecHandoff, SpecRace,    *)
(* SpecStart, SpecPersist, SpecRate, SpecRoutes, SpecBoundary, SpecOutcome.*)
(***************************************************************************)
EXTENDS Integers, FiniteSets, Sequences, TLC

\* ------------------------------------------------------------------ bounds
MaxIssue == 2    \* credentials issued in one run, over all registries
NHandlers == 2   \* request handlers racing for one secret

\* ------------------------------------------------- constants of the program
tokenTTL == 2
ridTTL == 6
claimCodeTTL == 6
lookupWindow == 2
miniRidTTL == 6

\* the clock runs until a credential issued at time 0 has expired and a sweep
\* can collect it
MaxTime == ridTTL + 1

Subjects == {1, 2}
Codes == {"AB7K-39"}
None == 0
NoCode == ""
NoHash == <<>>
NoDate == -1
Kinds == {"token", "rid", "code", "mini"}

\* the n-th secret drawn of a size is n
Secrets == 1..MaxIssue

\* crypto.createHash('sha256').update(code).digest('hex')
Sha256(code) == <<"sha256", code>>
CodeHashes == {Sha256(c) : c \in Codes}

VARIABLES
  now,            \* Date.now()
  tokens,         \* TokenService.tokens        : secret -> LoginToken
  pendingRIDs,    \* TokenService.pendingRIDs   : rid -> PendingRID
  pendingLogins,  \* TokenService.pendingLogins : claimCodeHash -> PendingLogin
  ridFile,        \* contents of .rids.json
  rids,           \* RidService.rids            : rid -> RequestId
  issued,         \* number of secrets each registry has issued
  book,           \* history: every credential issued, by <<kind, serial>>
  wins,           \* history: successful consumes of each credential
  pinned,         \* history: claim-code credentials verifyPin has accepted
  late,           \* history: credentials presented after their expiry
  reqs,           \* requests received by a handler and not yet answered
  disk,           \* what the file system does with a write of the process
  pendingAuth,    \* calls of authenticateTelegramUser that have not returned
  replies,        \* history: the responses sent after those calls returned
  rnow,           \* Date.now() as the rate limiter reads it
  authStore,      \* authRateLimiter.store    : key -> RateLimitEntry
  sessionStore,   \* sessionRateLimiter.store : key -> RateLimitEntry
  windows,        \* history: per limiter and key, the last window and its calls
  limited,        \* history: number of requests that went through a limiter
  lastReq,        \* history: how the last HTTP request went through its route
  uncleaned,      \* history: authRateLimiter.store had cleanup() never run
  audit           \* the AuditLog singleton and the file it appends to

vars == <<now, tokens, pendingRIDs, pendingLogins, ridFile, rids, issued,
          book, wins, pinned, late, reqs, disk, pendingAuth, replies,
          rnow, authStore, sessionStore, windows, limited, lastReq, audit,
          uncleaned>>

history == <<book, wins, pinned, late>>
handoff == <<pendingAuth, replies>>
rate == <<rnow, authStore, sessionStore, windows, limited, uncleaned>>

Drop(m, k) == [x \in DOMAIN m \ {k} |-> m[x]]
Put(m, k, v) == [x \in DOMAIN m \cup {k} |-> IF x = k THEN v ELSE m[x]]
Keep(m, S) == [x \in S |-> m[x]]
Bump(n) == IF n < 2 THEN n + 1 ELSE n
TotalIssued == issued["token"] + issued["rid"] + issued["code"] + issued["mini"]

\* crypto.randomBytes(size).toString('hex'): a value no earlier call with
\* that size returned.  A login token is drawn with size 32 and a RID, of
\* either registry, with size 16: the two RID registries draw from one
\* space, and a token, twice as long, is never a RID.
randomBytes(size) ==
  IF size = 32 THEN issued["token"] + 1 ELSE issued["rid"] + issued["mini"] + 1

\* .rids.json was truncated and not written to its end
Torn == [state |-> "torn", entries |-> <<>>]

Idle == [st |-> "idle"]
NoRequest == [route |-> "none", admission |-> "none", status |-> 0,
              retry_after |-> 0, op |-> FALSE, logs |-> <<>>]

\* new AuditLog(): nothing in memory; the file of the day, empty here
NoAudit == [inMemoryLogs |-> <<>>, logFile |-> <<>>, logged |-> 0, failed |-> 0]

Init ==
  /\ now = 0
  /\ tokens = <<>>
  /\ pendingRIDs = <<>>
  /\ pendingLogins = <<>>
  /\ ridFile = [state |-> "absent", entries |-> <<>>]
  /\ rids = <<>>
  /\ issued = [k \in Kinds |-> 0]
  /\ book = <<>>
  /\ wins = <<>>
  /\ pinned = {}
  /\ late = {}
  /\ reqs = [h \in 1..NHandlers |-> Idle]
  /\ disk = "ok"
  /\ pendingAuth = {}
  /\ replies = {}
  /\ rnow = 0
  /\ authStore = <<>>
  /\ uncleaned = <<>>
  /\ sessionStore = <<>>
  /\ windows = <<>>
  /\ limited = 0
  /\ lastReq = NoRequest
  /\ audit = NoAudit

\* Before the first issuance no registry holds a date, and a call at any time
\* does what it does at time 0: the clock is counted from the first issuance.
\* The clock advances.
Tick ==
  /\ now < MaxTime
  /\ TotalIssued > 0
  /\ now' = now + 1
  /\ UNCHANGED <<tokens, pendingRIDs, pendingLogins, ridFile, rids, issued,
                 history, reqs>>
  /\ UNCHANGED <<disk, handoff, audit, rate, lastReq>>

\* ------------------------------------------------------ what a call returns
Ok(id) == [valid |-> TRUE, telegramId |-> id, error |-> "ok"]
Err(e) == [valid |-> FALSE, telegramId |-> None, error |-> e]

NotFoundErrors == {"Token not found", "RID not found", "Code not found"}
AlreadyErrors == {"Token already used", "RID already claimed", "Code already used",
                  "already_used"}
ExpiredErrors == {"Token expired", "RID expired", "Code expired"}

\* history after issuing credential cid, and after a call on it returned r
Issue(cid, key, telegramId, expiresAt) ==
  /\ book' = Put(book, cid, [key |-> key, who |-> telegramId, exp |-> expiresAt])
  /\ wins' = Put(wins, cid, 0)
  /\ UNCHANGED <<pinned, late>>
Called(cid, r) ==
  /\ wins' = IF r.valid THEN [wins EXCEPT ![cid] = Bump(@)] ELSE wins
  /\ late' = IF r.error \in ExpiredErrors THEN late \cup {cid} ELSE late
  /\ UNCHANGED book

\* ------------------------------------------------------------- login tokens
generateLoginToken(telegramId) ==
  /\ TotalIssued < MaxIssue
  /\ LET token == randomBytes(32) IN
     /\ tokens' = Put(tokens, token,
                      [telegramId |-> telegramId, createdAt |-> now,
                       expiresAt |-> now + tokenTTL, used |-> FALSE])
     /\ issued' = [issued EXCEPT !["token"] = @ + 1]
     /\ Issue(<<"token", token>>, token, telegramId, now + tokenTTL)
  /\ UNCHANGED <<now, pendingRIDs, pendingLogins, ridFile, rids, reqs>>
  /\ UNCHANGED <<disk, handoff, audit, rate, lastReq>>

\* verifyAndConsumeToken with the expiry test ahead of the `used` test
verifyAndConsumeToken_expiryFirst(token) ==
  IF token \notin DOMAIN tokens THEN Err("Token not found")
  ELSE IF now > tokens[token].expiresAt THEN Err("Token expired")
  ELSE IF tokens[token].used THEN Err("Token already used")
  ELSE Ok(tokens[token].telegramId)

\* verifyAndConsumeToken without its `used` test
verifyAndConsumeToken_noUsedTest(token) ==
  IF token \notin DOMAIN tokens THEN Err("Token not found")
  ELSE IF now > tokens[token].expiresAt THEN Err("Token expired")
  ELSE Ok(tokens[token].telegramId)

verifyAndConsumeToken(token) ==
  IF token \notin DOMAIN tokens THEN Err("Token not found")
  ELSE IF tokens[token].used THEN Err("Token already used")
  ELSE IF now > tokens[token].expiresAt THEN Err("Token expired")
  ELSE Ok(tokens[token].telegramId)

\* verifyAndConsumeToken deleting the record on every failure
tokensAfter_evictOnFail(token, r) ==
  IF r.valid THEN [tokens EXCEPT ![token].used = TRUE]
  ELSE Drop(tokens, token)

\* the registry after verifyAndConsumeToken(token) returned r
tokensAfter(token, r) ==
  IF r.valid THEN [tokens EXCEPT ![token].used = TRUE]
  ELSE IF r.error = "Token expired" THEN Drop(tokens, token)
  ELSE tokens

ConsumeToken(token) ==
  LET r == verifyAndConsumeToken(token) IN
  /\ tokens' = tokensAfter(token, r)
  /\ Called(<<"token", token>>, r)
  /\ UNCHANGED <<now, pendingRIDs, pendingLogins, ridFile, rids, issued, pinned>>
  /\ UNCHANGED <<disk, handoff, audit, rate>>

\* POST /api/validate-token
validateToken(token) == ConsumeToken(token) /\ UNCHANGED <<reqs, lastReq>>

\* ------------------------------------------------- pending RIDs (handshake)
\* Date.prototype.toJSON, and new Date(value) in the reviver
toISOString(t) == <<"ISO", t>>
parseDate(text) == text[2]

\* JSON.stringify(Array.from(pendingRIDs.entries()), null, 2): the entries in
\* the insertion order of the Map, which is the order the RIDs were issued in
stringify(m) ==
  LET key(i) == CHOOSE k \in DOMAIN m : Cardinality({j \in DOMAIN m : j < k}) = i - 1 IN
  [i \in 1..Cardinality(DOMAIN m) |->
     <<key(i), [telegramId |-> m[key(i)].telegramId,
                createdAt |-> toISOString(m[key(i)].createdAt),
                expiresAt |-> toISOString(m[key(i)].expiresAt),
                claimed |-> m[key(i)].claimed]>>]

\* What saveRIDsToFile leaves in .rids.json.  writeFileSync opens the file
\* itself for writing: when the open fails ("readonly") the file is as it
\* was, when the write fails after the open truncated the file (a full
\* disk) the file is torn.  The catch block logs the error and the method returns.
saveRIDsToFile(m) ==
  IF disk = "ok" THEN [state |-> "complete", entries |-> stringify(m)]
  ELSE IF disk = "readonly" THEN ridFile
  ELSE Torn

\* The registry loadRIDsFromFile builds: nothing when the file does not exist
\* or JSON.parse throws, else one pendingRIDs.set per entry, in file order.
loadRIDsFromFile(file) ==
  IF file.state # "complete" THEN <<>>
  ELSE LET last(rid) == CHOOSE i \in DOMAIN file.entries :
                          /\ file.entries[i][1] = rid
                          /\ \A j \in DOMAIN file.entries :
                               file.entries[j][1] = rid => j <= i IN
       [rid \in {file.entries[i][1] : i \in DOMAIN file.entries} |->
          [telegramId |-> file.entries[last(rid)][2].telegramId,
           createdAt |-> parseDate(file.entries[last(rid)][2].createdAt),
           expiresAt |-> parseDate(file.entries[last(rid)][2].expiresAt),
           claimed |-> file.entries[last(rid)][2].claimed]]

\* the registry after generatePendingRID(telegramId) has added its record
pendingRIDsWith(telegramId) ==
  Put(pendingRIDs, randomBytes(16),
      [telegramId |-> telegramId, createdAt |-> now,
       expiresAt |-> now + ridTTL, claimed |-> FALSE])

generatePendingRID(telegramId) ==
  /\ TotalIssued < MaxIssue
  /\ LET rid == randomBytes(16)
         m == pendingRIDsWith(telegramId) IN
     /\ pendingRIDs' = m
     /\ ridFile' = saveRIDsToFile(m)
     /\ issued' = [issued EXCEPT !["rid"] = @ + 1]
     /\ Issue(<<"rid", rid>>, rid, telegramId, now + ridTTL)
  /\ UNCHANGED <<now, tokens, pendingLogins, rids, reqs>>
  /\ UNCHANGED <<disk, handoff, audit, rate, lastReq>>

claimPendingRID(rid) ==
  IF rid \notin DOMAIN pendingRIDs THEN Err("RID not found")
  ELSE IF pendingRIDs[rid].claimed THEN Err("RID already claimed")
  ELSE IF now > pendingRIDs[rid].expiresAt THEN Err("RID expired")
  ELSE Ok(pendingRIDs[rid].telegramId)

\* the registry after claimPendingRID(rid) returned r
pendingRIDsAfter(rid, r) ==
  IF r.valid THEN [pendingRIDs EXCEPT ![rid].claimed = TRUE]
  ELSE IF r.error = "RID expired" THEN Drop(pendingRIDs, rid)
  ELSE pendingRIDs

\* the snapshot after claimPendingRID(rid) returned r: the expiry branch and the
\* success branch save, the other two return before any write
ridFileAfter(rid, r) ==
  IF r.valid \/ r.error = "RID expired" THEN saveRIDsToFile(pendingRIDsAfter(rid, r))
  ELSE ridFile

ClaimRid(rid) ==
  LET r == claimPendingRID(rid) IN
  /\ pendingRIDs' = pendingRIDsAfter(rid, r)
  /\ ridFile' = ridFileAfter(rid, r)
  /\ Called(<<"rid", rid>>, r)
  /\ UNCHANGED <<now, tokens, pendingLogins, rids, issued, pinned>>
  /\ UNCHANGED <<disk, handoff, audit, rate>>

\* TokenService.claimPendingRID called on its own: the method calls no
\* identity backend and sends no response, its caller does (handshakeBegin)
claimRid(rid) == ClaimRid(rid) /\ UNCHANGED <<reqs, lastReq>>

\* the tests of the lookup loop: unclaimed, created inside the 5 minute window,
\* not expired
isPending(rid) ==
  /\ ~pendingRIDs[rid].claimed
  /\ pendingRIDs[rid].createdAt > now - lookupWindow
  /\ now < pendingRIDs[rid].expiresAt

\* the global lookup without its 5 minute window test
getLatestPendingRID_noWindow(telegramId) ==
  LET cand == {rid \in DOMAIN pendingRIDs :
                 ~pendingRIDs[rid].claimed /\ now < pendingRIDs[rid].expiresAt} IN
  IF cand = {}
    THEN [rid |-> None, telegramId |-> None,
          error |-> "No pending RID found (link may have expired)"]
  ELSE LET newest == {rid \in cand :
                        \A o \in cand : pendingRIDs[o].createdAt <= pendingRIDs[rid].createdAt}
           rid == CHOOSE x \in newest : \A o \in newest : x <= o IN
       [rid |-> rid, telegramId |-> pendingRIDs[rid].telegramId, error |-> "ok"]

\* The class body defines getLatestPendingRID twice and the second definition
\* replaces the first, so every call, with or without an argument, runs the
\* global lookup and the argument is not read.  The Map is walked in insertion
\* order and a candidate replaces `latest` only when strictly newer.
getLatestPendingRID(telegramId) ==
  LET cand == {rid \in DOMAIN pendingRIDs : isPending(rid)} IN
  IF cand = {}
    THEN [rid |-> None, telegramId |-> None,
          error |-> "No pending RID found (link may have expired)"]
  ELSE LET newest == {rid \in cand :
                        \A o \in cand : pendingRIDs[o].createdAt <= pendingRIDs[rid].createdAt}
           rid == CHOOSE x \in newest : \A o \in newest : x <= o IN
       [rid |-> rid, telegramId |-> pendingRIDs[rid].telegramId, error |-> "ok"]

\* ---------------------------------------------------------------- claim codes
\* Math.random picks claimCode; the record is stored under its hash whether or
\* not a record is already there
generateClaimCode(telegramId, claimCode) ==
  /\ TotalIssued < MaxIssue
  /\ LET id == issued["code"] + 1
         claimCodeHash == Sha256(claimCode) IN
     /\ pendingLogins' = Put(pendingLogins, claimCodeHash,
                             [claimCode |-> claimCode, telegramId |-> telegramId,
                              createdAt |-> now, expiresAt |-> now + claimCodeTTL,
                              pinVerified |-> FALSE, usedAt |-> NoDate, id |-> id])
     /\ issued' = [issued EXCEPT !["code"] = id]
     /\ Issue(<<"code", id>>, claimCodeHash, telegramId, now + claimCodeTTL)
  /\ UNCHANGED <<now, tokens, pendingRIDs, ridFile, rids, reqs>>
  /\ UNCHANGED <<disk, handoff, audit, rate, lastReq>>

\* the credential a claim-code hash stands for at the moment
CodeCid(claimCodeHash) ==
  IF claimCodeHash \in DOMAIN pendingLogins
    THEN <<"code", pendingLogins[claimCodeHash].id>>
  ELSE <<"code", None>>

verifyPinResult(claimCodeHash) ==
  IF claimCodeHash \notin DOMAIN pendingLogins
    THEN [valid |-> FALSE, claimCode |-> "", error |-> "Code not found"]
  ELSE IF now > pendingLogins[claimCodeHash].expiresAt
    THEN [valid |-> FALSE, claimCode |-> "", error |-> "Code expired"]
  ELSE [valid |-> TRUE, claimCode |-> pendingLogins[claimCodeHash].claimCode,
        error |-> "ok"]

\* verifyPin that also marks the record used
verifyPin_burn(claimCodeHash) ==
  LET r == verifyPinResult(claimCodeHash) IN
  /\ pendingLogins' =
       IF r.valid THEN [pendingLogins EXCEPT ![claimCodeHash].pinVerified = TRUE,
                                             ![claimCodeHash].usedAt = now]
       ELSE IF r.error = "Code expired" THEN Drop(pendingLogins, claimCodeHash)
       ELSE pendingLogins
  /\ pinned' = IF r.valid THEN pinned \cup {CodeCid(claimCodeHash)} ELSE pinned
  /\ late' = IF r.error = "Code expired" THEN late \cup {CodeCid(claimCodeHash)} ELSE late
  /\ UNCHANGED <<now, tokens, pendingRIDs, ridFile, rids, issued, book, wins, reqs>>
  /\ UNCHANGED <<disk, handoff, audit, rate, lastReq>>

\* POST /handshake/pin: TokenService.verifyPin behind a presence test
verifyPin(claimCodeHash) ==
  LET r == verifyPinResult(claimCodeHash) IN
  /\ pendingLogins' =
       IF r.valid THEN [pendingLogins EXCEPT ![claimCodeHash].pinVerified = TRUE]
       ELSE IF r.error = "Code expired" THEN Drop(pendingLogins, claimCodeHash)
       ELSE pendingLogins
  /\ pinned' = IF r.valid THEN pinned \cup {CodeCid(claimCodeHash)} ELSE pinned
  /\ late' = IF r.error = "Code expired" THEN late \cup {CodeCid(claimCodeHash)} ELSE late
  /\ UNCHANGED <<now, tokens, pendingRIDs, ridFile, rids, issued, book, wins, reqs>>
  /\ UNCHANGED <<disk, handoff, audit, rate, lastReq>>

\* claimCode without its pinVerified test
claimCodeResult_noPinTest(claimCodeHash) ==
  IF claimCodeHash \notin DOMAIN pendingLogins THEN Err("Code not found")
  ELSE IF pendingLogins[claimCodeHash].usedAt # NoDate THEN Err("Code already used")
  ELSE IF now > pendingLogins[claimCodeHash].expiresAt THEN Err("Code expired")
  ELSE Ok(pendingLogins[claimCodeHash].telegramId)

claimCodeResult(claimCodeHash) ==
  IF claimCodeHash \notin DOMAIN pendingLogins THEN Err("Code not found")
  ELSE IF pendingLogins[claimCodeHash].usedAt # NoDate THEN Err("Code already used")
  ELSE IF now > pendingLogins[claimCodeHash].expiresAt THEN Err("Code expired")
  ELSE IF ~pendingLogins[claimCodeHash].pinVerified THEN Err("Code not verified")
  ELSE Ok(pendingLogins[claimCodeHash].telegramId)

\* claimCode setting usedAt before its pinVerified test
pendingLoginsAfter_burn(claimCodeHash, r) ==
  IF r.valid \/ r.error = "Code not verified"
    THEN [pendingLogins EXCEPT ![claimCodeHash].usedAt = now]
  ELSE IF r.error = "Code expired" THEN Drop(pendingLogins, claimCodeHash)
  ELSE pendingLogins

\* the registry after claimCode(claimCodeHash) returned r
pendingLoginsAfter(claimCodeHash, r) ==
  IF r.valid THEN [pendingLogins EXCEPT ![claimCodeHash].usedAt = now]
  ELSE IF r.error = "Code expired" THEN Drop(pendingLogins, claimCodeHash)
  ELSE pendingLogins

\* TokenService.claimCode called with a hash
ClaimCode(claimCodeHash) ==
  LET r == claimCodeResult(claimCodeHash) IN
  /\ pendingLogins' = pendingLoginsAfter(claimCodeHash, r)
  /\ Called(CodeCid(claimCodeHash), r)
  /\ UNCHANGED <<now, tokens, pendingRIDs, ridFile, rids, issued, pinned, reqs>>
  /\ UNCHANGED <<disk, handoff, audit, rate, lastReq>>

\* the callback of TokenService.startCleanupInterval
Cleanup ==
  LET tk == {t \in DOMAIN tokens : ~(now > tokens[t].expiresAt /\ tokens[t].used)}
      rk == {r \in DOMAIN pendingRIDs :
               ~(now > pendingRIDs[r].expiresAt /\ pendingRIDs[r].claimed)}
      ck == {h \in DOMAIN pendingLogins : ~(now > pendingLogins[h].expiresAt)}
      cleaned == Cardinality(DOMAIN tokens \ tk) + Cardinality(DOMAIN pendingRIDs \ rk)
                 + Cardinality(DOMAIN pendingLogins \ ck) IN
  /\ tokens' = Keep(tokens, tk)
  /\ pendingRIDs' = Keep(pendingRIDs, rk)
  /\ pendingLogins' = Keep(pendingLogins, ck)
  /\ ridFile' = IF cleaned > 0 THEN saveRIDsToFile(Keep(pendingRIDs, rk)) ELSE ridFile
  /\ UNCHANGED <<now, rids, issued, history, reqs>>
  /\ UNCHANGED <<disk, handoff, audit, rate, lastReq>>

\* ---------------------------------------------------------------- audit log
\* AuditLog keeps the entries not yet written in inMemoryLogs and appends
\* them to logs/audit-<date>.jsonl.  An entry is modelled by its action and
\* status and by n, its place in the order of the log() calls (the timestamp
\* log() stamps it with); tg_id, error, ip and context are carried untouched
\* and left out.  `logged` counts the log() calls and `failed` the flushes
\* that threw and were reported by console.error (counted up to 2).  logFile
\* is the file, line by line; inMemoryLogs, the buffer, belongs to the process.
\*
\* maxInMemory is 1000 in the code.  The ceiling is modelled by a small
\* number so that a run reaches it; log() and flush() depend on it only
\* through the comparison length > maxInMemory.
maxInMemory == 3
MaxLog == 4      \* audit entries logged by the credential routes in one run

MaxPlain == 1    \* the routes without limiter log the first MaxPlain entries of a run

CriticalActions == {"auth_verified", "auth_failed", "invalid_signature", "rate_limited"}

\* A line of the audit file that is no JSON text.  Fragment is what a cut
\* append left at the end of the file: the beginning of a line, without its
\* newline.  A later append closes it (status "closed"): the fragment, the
\* first line of that append, and its newline make one line.
Fragment == [n |-> 0, action |-> "fragment", tg_id |-> None, status |-> "open"]

\* A disk that is filling up has room left for a few more bytes of the audit
\* file: for wholeLines(disk) lines and, on a "full0" / "full1" / "full2"
\* disk, for the beginning of the line after them, while on a "fit1" /
\* "fit2" disk the room ends exactly behind a newline.  A "full" disk has no
\* room and on a "readonly" one the open fails; "ok" has room for everything.
wholeLines(d) ==
  IF d \in {"full1", "fit1"} THEN 1 ELSE IF d \in {"full2", "fit2"} THEN 2 ELSE 0
partLine(d) == d \in {"full0", "full1", "full2"}

\* the file ends inside a line
torn(file) == file # <<>> /\ file[Len(file)] = Fragment

\* the file after the text of `lines`, a newline behind each, was written at
\* its end: behind a fragment the first line closes the fragment
appendLines(file, lines) ==
  IF lines = <<>> THEN file
  ELSE IF torn(file)
    THEN SubSeq(file, 1, Len(file) - 1) \o <<[Fragment EXCEPT !.status = "closed"]>> \o Tail(lines)
  ELSE file \o lines

\* fs.appendFileSync(logFile, text) on disk d, text being `lines` with a
\* newline behind each: it throws EROFS before it writes, or ENOSPC after it
\* has written the bytes that fit; when the whole text fits it returns
appendThrows(d, lines) ==
  d # "ok" /\ (d = "readonly" \/ Len(lines) > wholeLines(d))
\* the file after the call: the whole lines that fit, and the beginning of
\* the next one when the room ends inside it (behind a fragment those bytes
\* make the fragment longer)
appendFileSync(file, lines, d) ==
  LET written == IF d = "readonly" THEN 0
                 ELSE IF appendThrows(d, lines) THEN wholeLines(d) ELSE Len(lines)
      whole == appendLines(file, SubSeq(lines, 1, written)) IN
  IF appendThrows(d, lines) /\ partLine(d) /\ ~torn(whole) THEN Append(whole, Fragment)
  ELSE whole
\* the disk after the call: what was written has used its room
diskAfterAppend(d, lines) ==
  IF d \in {"ok", "readonly"} THEN d
  ELSE IF appendThrows(d, lines) THEN "full"
  ELSE LET k == wholeLines(d) - Len(lines) IN
       IF partLine(d) THEN (IF k = 0 THEN "full0" ELSE IF k = 1 THEN "full1" ELSE "full2")
       ELSE (IF k = 0 THEN "full" ELSE IF k = 1 THEN "fit1" ELSE "fit2")

\* AuditLog.flush: nothing to do on an empty buffer; when appendFileSync
\* returns the text is in the file and the buffer is emptied; when it throws
\* the catch block reports the error and leaves the buffer as it is, whatever
\* part of the text reached the file
flush(a) ==
  LET buf == a.inMemoryLogs IN
  IF buf = <<>> THEN a
  ELSE IF appendThrows(disk, buf)
    THEN [a EXCEPT !.logFile = appendFileSync(@, buf, disk), !.failed = Bump(@)]
  ELSE [a EXCEPT !.logFile = appendFileSync(@, buf, disk), !.inMemoryLogs = <<>>]
\* the disk after flush
diskAfterFlush(a) ==
  IF a.inMemoryLogs = <<>> THEN disk ELSE diskAfterAppend(disk, a.inMemoryLogs)

\* AuditLog.log up to its flush test: push, and shift once the length exceeds
\* maxInMemory
pushed(a, entry) ==
  LET e == [n |-> a.logged + 1, action |-> entry.action, tg_id |-> entry.tg_id,
            status |-> entry.status]
      all == Append(a.inMemoryLogs, e)
      kept == IF Len(all) > maxInMemory THEN Tail(all) ELSE all IN
  [a EXCEPT !.inMemoryLogs = kept, !.logged = @ + 1]

\* AuditLog.log: push, shift, and flush at once when the action is one of the
\* critical ones
log(a, entry) ==
  IF entry.action \in CriticalActions THEN flush(pushed(a, entry)) ELSE pushed(a, entry)

\* the audit log and the disk after a handler made its auditLog.log calls
auditAfter(logs) == IF logs = <<>> THEN audit ELSE log(audit, logs[1])
diskAfter(logs) ==
  IF logs = <<>> \/ logs[1].action \notin CriticalActions THEN disk
  ELSE diskAfterFlush(pushed(audit, logs[1]))

\* Array.prototype.slice(begin) of a sequence: a negative begin counts from
\* the end, and -0 is 0
slice(seq, begin) ==
  LET from == IF begin < 0 THEN (IF Len(seq) + begin > 0 THEN Len(seq) + begin ELSE 0)
              ELSE IF begin < Len(seq) THEN begin ELSE Len(seq) IN
  SubSeq(seq, from + 1, Len(seq))

\* AuditLog.getRecent
getRecent(limit) == slice(audit.inMemoryLogs, -limit)

\* AuditLog.getForUser
getForUser(telegramId, limit) ==
  LET ofUser(entry) == entry.tg_id = telegramId IN
  slice(SelectSeq(audit.inMemoryLogs, ofUser), -limit)

\* the setInterval callback of startPeriodicFlush
periodicFlush ==
  /\ Len(audit.inMemoryLogs) > 0
  /\ audit' = flush(audit)
  /\ disk' = diskAfterFlush(audit)
  /\ UNCHANGED <<now, tokens, pendingRIDs, pendingLogins, ridFile, rids, issued,
                 history, reqs, handoff, rate, lastReq>>

\* --------------------------------------------------- miniapp RIDs (RidService)
\* generateRid writing its record into the handshake registry as well
generateRidStep_shared(telegramId) ==
  /\ TotalIssued < MaxIssue
  /\ LET rid == randomBytes(16)
         rec == [telegramId |-> telegramId, createdAt |-> now,
                 expiresAt |-> now + miniRidTTL] IN
     /\ rids' = Put(rids, rid, [telegramId |-> rec.telegramId, createdAt |-> rec.createdAt,
                                expiresAt |-> rec.expiresAt, used |-> FALSE])
     /\ pendingRIDs' = Put(pendingRIDs, rid,
                           [telegramId |-> rec.telegramId, createdAt |-> rec.createdAt,
                            expiresAt |-> rec.expiresAt, claimed |-> FALSE])
     /\ issued' = [issued EXCEPT !["mini"] = @ + 1]
     /\ Issue(<<"mini", rid>>, rid, telegramId, now + miniRidTTL)
  /\ UNCHANGED <<now, tokens, pendingLogins, ridFile, reqs>>
  /\ UNCHANGED <<disk, handoff>>

\* (intent and context are stored and returned untouched; they are left out)
generateRidStep(telegramId) ==
  /\ TotalIssued < MaxIssue
  /\ LET rid == randomBytes(16) IN
     /\ rids' = Put(rids, rid, [telegramId |-> telegramId, createdAt |-> now,
                                expiresAt |-> now + miniRidTTL, used |-> FALSE])
     /\ issued' = [issued EXCEPT !["mini"] = @ + 1]
     /\ Issue(<<"mini", rid>>, rid, telegramId, now + miniRidTTL)
  /\ UNCHANGED <<now, tokens, pendingRIDs, pendingLogins, ridFile, reqs>>
  /\ UNCHANGED <<disk, handoff>>

\* RidService.generateRid called on its own: the method goes through no
\* limiter and writes no audit entry, its caller does (sessionRequestId)
generateRid(telegramId) ==
  generateRidStep(telegramId) /\ UNCHANGED <<rate, lastReq, audit>>

verifyAndConsumeRid(rid) ==
  IF rid \notin DOMAIN rids THEN Err("RID not found")
  ELSE IF rids[rid].used THEN Err("already_used")
  ELSE IF now > rids[rid].expiresAt THEN Err("RID expired")
  ELSE Ok(rids[rid].telegramId)

\* the entries the handler of /login/handshake/consume passes to auditLog.log
\* once verifyAndConsumeRid has returned r
handshakeConsumeLogs(r) ==
  IF r.valid
    THEN <<[action |-> "handshake_consumed", tg_id |-> r.telegramId,
            status |-> "success"]>>
  ELSE <<[action |-> "handshake_consume", tg_id |-> r.telegramId, status |-> "failed"]>>

\* what a call of RidService.verifyAndConsumeRid(rid) does to the registry
ConsumeRidStep(rid) ==
  LET r == verifyAndConsumeRid(rid) IN
  /\ rids' = IF r.valid THEN [rids EXCEPT ![rid].used = TRUE]
             ELSE IF r.error = "RID expired" THEN Drop(rids, rid)
             ELSE rids
  /\ Called(<<"mini", rid>>, r)
  /\ UNCHANGED <<now, tokens, pendingRIDs, pendingLogins, ridFile, issued, pinned, reqs>>
  /\ UNCHANGED <<disk, handoff, rate>>

\* RidService.verifyAndConsumeRid called on its own: the method writes no
\* audit entry and sends no response, its caller does (postHandshakeConsume)
ConsumeRid(rid) == ConsumeRidStep(rid) /\ UNCHANGED <<audit, lastReq>>

\* the callback of RidService.startCleanupInterval
RidCleanup ==
  /\ rids' = Keep(rids, {r \in DOMAIN rids : ~(now > rids[r].expiresAt /\ rids[r].used)})
  /\ UNCHANGED <<now, tokens, pendingRIDs, pendingLogins, ridFile, issued, history, reqs>>
  /\ UNCHANGED <<disk, handoff, audit, rate, lastReq>>

\* ----------------------------------------------------- POST /handshake/claim
Bodies == [claimCode : Codes \cup {NoCode}, rid : Secrets \cup {None},
           telegramId : Subjects \cup {None}]

\* The handler reads the first of the three fields that is present and never
\* the others, so a body with several fields makes the step of the body that
\* has only the first of them: the requests sent are the bodies with at most
\* one field.
Requests ==
  {b \in Bodies :
     (IF b.claimCode # NoCode THEN 1 ELSE 0) + (IF b.rid # None THEN 1 ELSE 0)
       + (IF b.telegramId # None THEN 1 ELSE 0) <= 1}

\* server.ts calls crypto.createHash without importing the crypto module: the
\* name resolves to the global Web Crypto object (or to nothing), which has no
\* createHash, so the first statement of the claim-code branch throws and the
\* catch block of the handler answers
cryptoCreateHash(claimCode) == [thrown |-> TRUE, hash |-> NoHash]

\* the handler trying the global lookup when the RID of the body is rejected
handshakeClaim_fallThrough(body) ==
  LET r == IF body.rid # None THEN claimPendingRID(body.rid) ELSE Err("no rid")
      p == getLatestPendingRID(None) IN
  IF body.claimCode # NoCode
    THEN [mode |-> "claimCode", status |-> 500, hash |-> NoHash, rid |-> None,
          r |-> Err("Internal server error"), targetTelegramId |-> None]
  ELSE IF body.rid # None /\ r.valid
    THEN [mode |-> "rid", status |-> 0, hash |-> NoHash, rid |-> body.rid, r |-> r,
          targetTelegramId |-> r.telegramId]
  ELSE IF body.rid # None /\ p.rid = None
    THEN [mode |-> "rid", status |-> 401, hash |-> NoHash, rid |-> body.rid, r |-> r,
          targetTelegramId |-> None]
  ELSE IF p.rid = None
    THEN [mode |-> IF body.telegramId # None THEN "telegramId" ELSE "global",
          status |-> 404, hash |-> NoHash, rid |-> None, r |-> Err(p.error),
          targetTelegramId |-> None]
  ELSE [mode |-> IF body.rid # None THEN "rid"
                 ELSE IF body.telegramId # None THEN "telegramId" ELSE "global",
        status |-> 0, hash |-> NoHash, rid |-> p.rid, r |-> claimPendingRID(p.rid),
        targetTelegramId |-> p.telegramId]

\* the handler going on to the identity backend whatever claimPendingRID said
handshakeClaim_noTest(body) ==
  IF body.claimCode # NoCode
    THEN [mode |-> "claimCode", status |-> 500, hash |-> NoHash, rid |-> None,
          r |-> Err("Internal server error"), targetTelegramId |-> None]
  ELSE IF body.rid # None
    THEN [mode |-> "rid", status |-> IF body.rid \in DOMAIN pendingRIDs THEN 0 ELSE 401,
          hash |-> NoHash, rid |-> body.rid, r |-> claimPendingRID(body.rid),
          targetTelegramId |-> IF body.rid \in DOMAIN pendingRIDs
                                 THEN pendingRIDs[body.rid].telegramId ELSE None]
  ELSE LET p == getLatestPendingRID(body.telegramId) IN
    [mode |-> IF body.telegramId # None THEN "telegramId" ELSE "global",
     status |-> IF p.rid = None THEN 404 ELSE 0, hash |-> NoHash, rid |-> p.rid,
     r |-> IF p.rid = None THEN Err(p.error) ELSE claimPendingRID(p.rid),
     targetTelegramId |-> p.telegramId]

\* The handler up to its only await.  status 0: the handler goes on to the
\* identity backend with targetTelegramId; any other status is the response
\* it has sent.  rid is the RID claimPendingRID was called with (None: not
\* called) and r what it returned; hash is the hash claimCode was called with.
handshakeClaim(body) ==
  IF body.claimCode # NoCode THEN
    LET h == cryptoCreateHash(body.claimCode) IN
    IF h.thrown
      THEN [mode |-> "claimCode", status |-> 500, hash |-> NoHash, rid |-> None,
            r |-> Err("Internal server error"), targetTelegramId |-> None]
    ELSE LET r == claimCodeResult(h.hash) IN
      [mode |-> "claimCode", status |-> IF r.valid THEN 0 ELSE 401, hash |-> h.hash,
       rid |-> None, r |-> r, targetTelegramId |-> r.telegramId]
  ELSE IF body.rid # None THEN
    LET r == claimPendingRID(body.rid) IN
    [mode |-> "rid", status |-> IF r.valid THEN 0 ELSE 401, hash |-> NoHash,
     rid |-> body.rid, r |-> r, targetTelegramId |-> r.telegramId]
  ELSE
    LET p == getLatestPendingRID(body.telegramId)
        mode == IF body.telegramId # None THEN "telegramId" ELSE "global" IN
    IF p.rid = None
      THEN [mode |-> mode, status |-> 404, hash |-> NoHash, rid |-> None,
            r |-> Err(p.error), targetTelegramId |-> None]
    ELSE LET r == claimPendingRID(p.rid) IN
      [mode |-> mode, status |-> IF r.valid THEN 0 ELSE 401, hash |-> NoHash,
       rid |-> p.rid, r |-> r,
       targetTelegramId |-> IF r.valid THEN p.telegramId ELSE None]

\* the response after authenticateTelegramUser returned { success: authOk }
authReply(authOk) == IF authOk THEN 200 ELSE 500

\* the response once supabaseService.authenticateTelegramUser has answered
handshakeResponse(body, authOk) ==
  LET o == handshakeClaim(body) IN
  IF o.status # 0 THEN o.status
  ELSE IF o.targetTelegramId = None THEN 400
  ELSE authReply(authOk)

\* the registries after the handler has run with outcome o
pendingLoginsOf(o) ==
  IF o.hash = NoHash THEN pendingLogins ELSE pendingLoginsAfter(o.hash, o.r)
pendingRIDsOf(o) ==
  IF o.rid = None THEN pendingRIDs ELSE pendingRIDsAfter(o.rid, o.r)
handshakePendingLogins(body) == pendingLoginsOf(handshakeClaim(body))
handshakePendingRIDs(body) == pendingRIDsOf(handshakeClaim(body))

handshakeStep(body) ==
  \E o \in {handshakeClaim(body)} :
  /\ pendingLogins' = pendingLoginsOf(o)
  /\ pendingRIDs' = pendingRIDsOf(o)
  /\ ridFile' = IF o.rid = None THEN ridFile ELSE ridFileAfter(o.rid, o.r)
  /\ IF o.rid # None THEN Called(<<"rid", o.rid>>, o.r)
     ELSE IF o.hash # NoHash THEN Called(CodeCid(o.hash), o.r)
     ELSE UNCHANGED <<book, wins, late>>
  /\ UNCHANGED <<now, tokens, rids, issued, pinned>>
  /\ UNCHANGED <<disk, rate, audit>>

\* the call of authenticateTelegramUser the handler makes, if it makes one
handshakeAuthCall(body) ==
  LET o == handshakeClaim(body) IN
  IF o.status = 0 /\ o.targetTelegramId # None
    THEN {[cid |-> IF o.rid # None THEN <<"rid", o.rid>> ELSE CodeCid(o.hash),
           telegramId |-> o.targetTelegramId]}
  ELSE {}

\* The handler up to `await supabaseService.authenticateTelegramUser(..)`:
\* it has either sent its response (401, 404, 400, 500) or left the call in
\* flight and returned to the event loop without a response.
handshakeBeginStep(body) ==
  /\ handshakeStep(body)
  /\ pendingAuth' = pendingAuth \cup handshakeAuthCall(body)
  /\ UNCHANGED replies

\* POST /handshake/claim, first half; a response sent here is not recorded
handshakeBegin(body) == handshakeBeginStep(body) /\ UNCHANGED <<reqs, lastReq>>

\* POST /functions/v1/auth-telegram with telegramId in the body: the handler
\* calls authenticateTelegramUser(telegramId) and awaits it; it reads and
\* writes no registry and asks for no credential.  A body without telegramId
\* is answered 400 and changes nothing.  (One such request per subject is
\* followed in a run.)
authTelegram(telegramId) ==
  LET call == [cid |-> <<"direct", telegramId>>, telegramId |-> telegramId] IN
  /\ call \notin pendingAuth
  /\ \A rp \in replies : rp.cid # call.cid
  /\ pendingAuth' = pendingAuth \cup {call}
  /\ UNCHANGED <<now, tokens, pendingRIDs, pendingLogins, ridFile, rids, issued,
                 history, reqs, disk, rate, lastReq, audit, replies>>

\* the response of the handler that awaited the call: /handshake/claim
\* answers a failure of the backend with 500, /functions/v1/auth-telegram
\* with 401
replyOf(call, authOk) ==
  IF call.cid[1] = "direct" THEN (IF authOk THEN 200 ELSE 401) ELSE authReply(authOk)

\* authenticateTelegramUser returns and the handler that awaited it sends its
\* response
backendReturnsStep(call, authOk) ==
  /\ call \in pendingAuth
  /\ pendingAuth' = pendingAuth \ {call}
  /\ reqs' = [h \in DOMAIN reqs |->
                IF reqs[h].st = "awaiting" /\ <<reqs[h].kind, reqs[h].key>> = call.cid
                  THEN [reqs[h] EXCEPT !.st = "done", !.status = replyOf(call, authOk)]
                ELSE reqs[h]]
  /\ UNCHANGED <<now, tokens, pendingRIDs, pendingLogins, ridFile, rids, issued,
                 history, disk, rate, audit>>

\* second half of the handler, with its response added to the history of
\* the responses
backendReplies(call, authOk) ==
  /\ backendReturnsStep(call, authOk)
  /\ replies' = replies \cup {[cid |-> call.cid, status |-> replyOf(call, authOk)]}
  /\ UNCHANGED lastReq

\* second half of the handler where no history of the responses is kept: the
\* response of a racing handler is recorded in reqs
backendReturns(call, authOk) ==
  /\ backendReturnsStep(call, authOk)
  /\ UNCHANGED <<replies, lastReq>>

\* ------------------------------------- handlers racing for the same secret
Registry(kind) ==
  IF kind = "token" THEN tokens ELSE IF kind = "rid" THEN pendingRIDs
  ELSE IF kind = "mini" THEN rids ELSE pendingLogins
Marked(kind, rec) ==
  IF kind \in {"token", "mini"} THEN rec.used ELSE IF kind = "rid" THEN rec.claimed
  ELSE rec.usedAt # NoDate

\* NHandlers requests carrying the same secret arrive while its credential is
\* unconsumed and unexpired; request h is the h-th to arrive, and the event
\* loop starts the handlers in the order of arrival
Arrive(kind, key) ==
  /\ \A h \in DOMAIN reqs : reqs[h].st = "idle"
  /\ key \in DOMAIN Registry(kind)
  /\ ~Marked(kind, Registry(kind)[key])
  /\ now < Registry(kind)[key].expiresAt
  /\ reqs' = [h \in DOMAIN reqs |-> [st |-> "pending", kind |-> kind, key |-> key]]
  /\ UNCHANGED <<now, tokens, pendingRIDs, pendingLogins, ridFile, rids, issued, history>>
  /\ UNCHANGED <<disk, handoff, audit, rate, lastReq>>

\* the body of a /handshake/claim request that carries only a rid
ridBody(rid) == [claimCode |-> NoCode, rid |-> rid, telegramId |-> None]

\* Handler h runs up to its response or to its await: /api/validate-token
\* for a token, which answers 200 with the result of verifyAndConsumeToken;
\* /handshake/claim with only a rid in its body for a RID, which answers 401
\* when claimPendingRID refuses and otherwise awaits the identity backend
\* (its response is sent in backendReturns).  res is what the service call
\* returned to the handler, status the response sent.
Serve(h) ==
  /\ reqs[h].st = "pending"
  /\ \A g \in 1 .. (h - 1) : reqs[g].st # "pending"
  /\ LET kind == reqs[h].kind
         key == reqs[h].key
         r == IF kind = "token" THEN verifyAndConsumeToken(key) ELSE claimPendingRID(key)
         waits == kind = "rid" /\ handshakeAuthCall(ridBody(key)) # {} IN
     /\ IF kind = "token" THEN ConsumeToken(key) /\ UNCHANGED handoff
        ELSE handshakeBeginStep(ridBody(key))
     /\ reqs' = [reqs EXCEPT ![h] = [st |-> IF waits THEN "awaiting" ELSE "done",
                                     kind |-> kind, key |-> key,
                                     res |-> r.error, who |-> r.telegramId,
                                     intime |-> now < book[<<kind, key>>].exp,
                                     status |-> IF waits THEN 0
                                                ELSE IF kind = "token" THEN 200
                                                ELSE 401]]
  /\ UNCHANGED lastReq

\* A secret that was never issued is in no registry, and a call with it is
\* answered "not found" and changes nothing, whichever it is: the secrets of
\* a size sent to a route are the ones drawn so far, a RID by either RID
\* registry, and one that was not, the next one.
Guessable(size, secret) == secret <= randomBytes(size)

\* The services on their own.  The callers of the methods are
\* /api/validate-token (verifyAndConsumeToken), /handshake/pin (verifyPin),
\* /handshake/claim (claimCode, claimPendingRID), the /start handler of the
\* bot (generateClaimCode, generatePendingRID), /miniapp/session/request-id
\* (generateRid) and /login/handshake/consume (verifyAndConsumeRid).
Next ==
  \/ Tick
  \/ \E s \in Subjects : generateLoginToken(s)
  \/ \E t \in {x \in Secrets : Guessable(32, x)} : validateToken(t)
  \/ \E s \in Subjects : generatePendingRID(s)
  \/ \E s \in Subjects, c \in Codes : generateClaimCode(s, c)
  \/ \E h \in CodeHashes : verifyPin(h)
  \/ \E h \in CodeHashes : ClaimCode(h)
  \/ \E r \in {x \in Secrets : Guessable(16, x)} : claimRid(r)
  \/ Cleanup
  \/ \E s \in Subjects : generateRid(s)
  \/ \E r \in {x \in Secrets : Guessable(16, x)} : ConsumeRid(r)
  \/ RidCleanup

Spec == Init /\ [][Next]_vars

\* Time advances while a credential can still expire, and the two setInterval
\* sweeps keep firing; no caller is obliged to present anything.
SpecSweep == Spec /\ WF_vars(Tick) /\ WF_vars(Cleanup) /\ WF_vars(RidCleanup)

NextHandoff ==
  \/ Tick
  \/ \E s \in Subjects : generatePendingRID(s)
  \/ \E s \in Subjects, c \in Codes : generateClaimCode(s, c)
  \/ \E h \in CodeHashes : verifyPin(h)
  \/ \E b \in Requests : handshakeBegin(b)
  \/ \E s \in {1} : authTelegram(s)
  \/ \E call \in pendingAuth, authOk \in BOOLEAN : backendReplies(call, authOk)
  \/ Cleanup

SpecHandoff == Init /\ [][NextHandoff]_vars

\* the responses are sent; the handlers are free for the next requests
Finish ==
  /\ \A h \in DOMAIN reqs : reqs[h].st = "done"
  /\ reqs' = [h \in DOMAIN reqs |-> Idle]
  /\ UNCHANGED <<now, tokens, pendingRIDs, pendingLogins, ridFile, rids, issued, history>>
  /\ UNCHANGED <<disk, handoff, audit, rate, lastReq>>

NextRace ==
  \/ Tick
  \/ \E s \in Subjects : generateLoginToken(s)
  \/ \E s \in Subjects : generatePendingRID(s)
  \/ \E k \in {"token", "rid"}, key \in Secrets : Arrive(k, key)
  \/ \E h \in 1..NHandlers : Serve(h)
  \/ \E call \in pendingAuth, authOk \in BOOLEAN : backendReturns(call, authOk)
  \/ Finish
  \/ Cleanup

SpecRace == Init /\ [][NextRace]_vars

\* ------------------------------------------------- persistence of the RIDs
DiskFaults == {"readonly", "full"}
AuditFaults == DiskFaults \cup {"full0", "full1", "full2", "fit1", "fit2"}

\* the file system starts / stops refusing the writes of the process (faults
\* are followed until a flush has failed: the disk that recovers from that
\* one stays in order)
DiskFails(fault) ==
  /\ disk = "ok"
  /\ audit.failed = 0
  /\ disk' = fault
  /\ UNCHANGED <<now, tokens, pendingRIDs, pendingLogins, ridFile, rids, issued,
                 history, reqs, handoff, audit, rate, lastReq>>
DiskRecovers ==
  /\ disk # "ok"
  /\ disk' = "ok"
  /\ UNCHANGED <<now, tokens, pendingRIDs, pendingLogins, ridFile, rids, issued,
                 history, reqs, handoff, audit, rate, lastReq>>

\* A new process: every Map starts empty, requests and calls in flight are
\* gone, and the TokenService constructor runs loadRIDsFromFile before the
\* module is exported, so before any handler can run.  The AuditLog of the new
\* process starts with an empty buffer: nothing flushes the old one when the
\* process stops, so what was logged and not written is in no file.
Boot(file) ==
  /\ pendingRIDs' = loadRIDsFromFile(file)
  /\ tokens' = <<>>
  /\ pendingLogins' = <<>>
  /\ rids' = <<>>
  /\ authStore' = <<>>
  /\ uncleaned' = <<>>
  /\ sessionStore' = <<>>
  /\ pendingAuth' = {}
  /\ reqs' = [h \in DOMAIN reqs |-> Idle]
  /\ audit' = [audit EXCEPT !.inMemoryLogs = <<>>]
  /\ UNCHANGED <<now, disk, replies, rnow, windows, limited, lastReq>>

\* the process is stopped between two requests and started again
Restart ==
  /\ Boot(ridFile)
  /\ UNCHANGED <<ridFile, issued, history>>

\* The process is killed inside the writeFileSync of generatePendingRID and
\* started again.  The RID was not returned to anybody.  writeFileSync writes
\* into .rids.json itself: killed before the open the file is the old one,
\* killed after the open truncated it the file is torn, killed after the last
\* write the file is the new one.
crashInSave(telegramId, point) ==
  /\ disk = "ok"
  /\ TotalIssued < MaxIssue
  /\ LET rid == randomBytes(16)
         file == IF point = "before" THEN ridFile
                 ELSE IF point = "torn" THEN Torn
                 ELSE saveRIDsToFile(pendingRIDsWith(telegramId)) IN
     /\ ridFile' = file
     /\ Boot(file)
     /\ IF point = "after"
          THEN /\ issued' = [issued EXCEPT !["rid"] = @ + 1]
               /\ Issue(<<"rid", rid>>, rid, telegramId, now + ridTTL)
        ELSE UNCHANGED <<issued, history>>

NextPersist ==
  \/ Tick
  \/ \E s \in Subjects : generatePendingRID(s)
  \/ \E b \in {x \in Requests : Guessable(16, x.rid)} : handshakeBegin(b)
  \/ \E call \in pendingAuth, authOk \in BOOLEAN : backendReturns(call, authOk)
  \/ Cleanup
  \/ \E fault \in DiskFaults : DiskFails(fault)
  \/ DiskRecovers
  \/ Restart
  \/ \E s \in Subjects, point \in {"before", "torn", "after"} : crashInSave(s, point)

SpecPersist == Init /\ [][NextPersist]_vars

\* ------------------------------------------------- several codes on display
\* Math.random draws different display codes, so that several claim-code
\* records exist next to each other, beside a login token or a pending RID
PinCodes == {"AB7K-39", "QZ3M-07"}
PinHashes == {Sha256(c) : c \in PinCodes}

NextPin ==
  \/ Tick
  \/ \E s \in Subjects, c \in PinCodes : generateClaimCode(s, c)
  \/ \E h \in PinHashes : verifyPin(h)
  \/ \E h \in PinHashes : ClaimCode(h)
  \/ \E s \in Subjects : generateLoginToken(s)
  \/ \E s \in Subjects : generatePendingRID(s)
  \/ Cleanup

SpecPin == Init /\ [][NextPin]_vars

\* ------------------------------------------------------------ rate limiting
\* The limiters read Date.now() in units of 30 seconds.  `rnow` is counted from
\* the first request that goes through a limiter and runs until a window
\* opened then has been over for one unit; during that minute and a half
\* `now` (units of 2.5 minutes) does not advance.
MaxReq == 7      \* requests sent through a limiter in one run

windowMs == 2
authMaxRequests == 5
sessionMaxRequests == 10
MaxRTime == windowMs + 1

Origins == {1, 2}
\* req.body.user.id of a request to /miniapp/auth/verify, None when absent
Claimed == {None, 1}
Limiters == {"auth", "session"}
\* req.body.initData: absent, with a signature that does not verify, signed
\* without a user (or with a user without id), signed with user InitUser
InitData == {"missing", "forged", "nouser", "signed"}
\* verification.data.user.id of the signed initData
InitUser == 1

maxRequestsOf(limiter) == IF limiter = "auth" THEN authMaxRequests ELSE sessionMaxRequests

\* keyGenerator of createIpRateLimiter / the default key: req.ip
ipKey(ip) == <<ip>>

\* keyGenerator of createCombinedRateLimiter:
\* telegramId ? `${ip}:tg_${telegramId}` : ip
combinedKey(ip, telegramId) ==
  IF telegramId # None THEN <<ip, "tg", telegramId>> ELSE <<ip>>

\* RateLimiter.middleware with `>` in place of `>=` in the reset test
middleware_strictReset(store, key, maxRequests) ==
  IF key \notin DOMAIN store \/ rnow > store[key].resetAt
    THEN [store |-> Put(store, key, [count |-> 1, resetAt |-> rnow + windowMs]),
          next |-> TRUE, retry_after |-> 0]
  ELSE LET entry == [store[key] EXCEPT !.count = @ + 1] IN
       [store |-> Put(store, key, entry),
        next |-> entry.count <= maxRequests,
        retry_after |-> IF entry.count > maxRequests THEN entry.resetAt - rnow ELSE 0]

\* RateLimiter.middleware: the store after the request, whether next() is
\* called, and the retry_after of the 429 response (in units of 30 seconds)
middleware(store, key, maxRequests) ==
  IF key \notin DOMAIN store \/ rnow >= store[key].resetAt
    THEN [store |-> Put(store, key, [count |-> 1, resetAt |-> rnow + windowMs]),
          next |-> TRUE, retry_after |-> 0]
  ELSE LET entry == [store[key] EXCEPT !.count = @ + 1] IN
       [store |-> Put(store, key, entry),
        next |-> entry.count <= maxRequests,
        retry_after |-> IF entry.count > maxRequests THEN entry.resetAt - rnow ELSE 0]

\* RateLimiter.cleanup deleting every entry, whether its window is over or not
cleanup_all(store) == Keep(store, {})

\* RateLimiter.cleanup
cleanup(store) == Keep(store, {k \in DOMAIN store : ~(rnow >= store[k].resetAt)})

\* history: a window of a key opens with the first call made for it and with
\* the first call made windowMs or more after the window before it opened;
\* `before` is the number of calls made in the window before it
Observe(limiter, key, admitted) ==
  LET k == <<limiter, key>>
      w == IF k \notin DOMAIN windows
             THEN [start |-> rnow, calls |-> 0, admitted |-> 0, before |-> 0]
           ELSE IF rnow >= windows[k].start + windowMs
             THEN [start |-> rnow, calls |-> 0, admitted |-> 0,
                   before |-> windows[k].calls]
           ELSE windows[k] IN
  /\ windows' = Put(windows, k, [w EXCEPT !.calls = @ + 1,
                                          !.admitted = @ + (IF admitted THEN 1 ELSE 0)])
  /\ limited' = limited + 1

Through(route, key, m, status, op) ==
  [route |-> route,
   admission |-> IF m.next THEN "admitted" ELSE "denied",
   status |-> IF m.next THEN status ELSE 429,
   retry_after |-> m.retry_after, op |-> m.next /\ op, logs |-> <<>>]

\* the entries the handler of /miniapp/auth/verify passes to auditLog.log
authVerifyLogs(initData) ==
  IF initData = "signed"
    THEN <<[action |-> "auth_verified", tg_id |-> InitUser, status |-> "success"]>>
  ELSE <<[action |-> "auth_verify", tg_id |-> None, status |-> "failed"]>>

\* the entries the handler of /miniapp/session/request-id passes to auditLog.log
sessionRequestIdLogs(telegramId) ==
  IF telegramId = None
    THEN <<[action |-> "request_id_generation", tg_id |-> None, status |-> "failed"]>>
  ELSE <<[action |-> "request_id_generated", tg_id |-> telegramId,
          status |-> "success"]>>

\* the limiters' clock advances
rlTick ==
  /\ rnow < MaxRTime
  /\ limited > 0
  /\ rnow' = rnow + 1
  /\ UNCHANGED <<now, tokens, pendingRIDs, pendingLogins, ridFile, rids, issued,
                 history, reqs, disk, handoff, audit, authStore, sessionStore, windows,
                 limited, lastReq, uncleaned>>

\* POST /miniapp/auth/verify: the limiter, then the handler, which verifies
\* initData, logs the outcome and answers; it calls no credential registry.
\* A request the limiter denies never reaches the handler.
miniappAuthVerify(ip, telegramId, initData) ==
  LET key == combinedKey(ip, telegramId)
      m == middleware(authStore, key, authMaxRequests) IN
  /\ limited < MaxReq
  /\ authStore' = m.store
  /\ uncleaned' = middleware(uncleaned, key, authMaxRequests).store
  /\ Observe("auth", key, m.next)
  /\ lastReq' = [Through("/miniapp/auth/verify", key, m,
                         IF initData \in {"missing", "nouser"} THEN 400
                         ELSE IF initData = "forged" THEN 401 ELSE 200, FALSE)
                  EXCEPT !.logs = IF m.next THEN authVerifyLogs(initData) ELSE <<>>]
  /\ audit' = auditAfter(lastReq'.logs)
  /\ disk' = diskAfter(lastReq'.logs)
  /\ UNCHANGED <<now, tokens, pendingRIDs, pendingLogins, ridFile, rids, issued,
                 history, reqs, handoff, rnow, sessionStore>>

\* POST /miniapp/session/request-id: the limiter, then the handler, which
\* answers 400 to a body without user, user.tg_id or intent (telegramId =
\* None) and otherwise calls ridService.generateRid; it logs either outcome.
\* Neither entry is critical: log() does not flush and the disk is not touched.
sessionRequestId(ip, telegramId) ==
  LET key == ipKey(ip)
      m == middleware(sessionStore, key, sessionMaxRequests) IN
  /\ limited < MaxReq
  /\ sessionStore' = m.store
  /\ Observe("session", key, m.next)
  /\ lastReq' = [Through("/miniapp/session/request-id", key, m,
                         IF telegramId = None THEN 400 ELSE 200, telegramId # None)
                  EXCEPT !.logs = IF m.next THEN sessionRequestIdLogs(telegramId)
                                  ELSE <<>>]
  /\ IF m.next /\ telegramId # None THEN generateRidStep(telegramId)
     ELSE UNCHANGED <<now, tokens, pendingRIDs, pendingLogins, ridFile, rids, issued,
                      history, reqs, disk, handoff>>
  /\ audit' = auditAfter(lastReq'.logs)
  /\ UNCHANGED <<rnow, authStore, uncleaned>>

\* POST /api/validate-token, token = None standing for a body without token,
\* which is answered 400 before anything is called; no limiter is mounted on
\* the route and the handler logs nothing
postValidateToken(token) ==
  IF token = None
    THEN /\ lastReq' = [route |-> "/api/validate-token", admission |-> "none",
                        status |-> 400, retry_after |-> 0, op |-> FALSE, logs |-> <<>>]
         /\ lastReq' # lastReq
         /\ UNCHANGED <<now, tokens, pendingRIDs, pendingLogins, ridFile, rids, issued,
                        history, reqs, disk, handoff, rate, audit>>
  ELSE /\ ConsumeToken(token)
       /\ lastReq' = [route |-> "/api/validate-token", admission |-> "none",
                      status |-> 200, retry_after |-> 0, op |-> TRUE, logs |-> <<>>]
       /\ UNCHANGED reqs

\* the setInterval callbacks of the two limiters
authCleanup ==
  /\ authStore' = cleanup(authStore)
  /\ UNCHANGED <<now, tokens, pendingRIDs, pendingLogins, ridFile, rids, issued,
                 history, reqs, disk, handoff, audit, rnow, sessionStore, windows, limited,
                 lastReq, uncleaned>>
sessionCleanup ==
  /\ sessionStore' = cleanup(sessionStore)
  /\ UNCHANGED <<now, tokens, pendingRIDs, pendingLogins, ridFile, rids, issued,
                 history, reqs, disk, handoff, audit, rnow, authStore, windows, limited,
                 lastReq, uncleaned>>

\* The limiter does not read initData, it runs before the handler does: the
\* clients that are throttled here all send an initData that does not verify.

NextRate ==
  \/ rlTick
  \/ \E ip \in Origins, s \in Claimed, d \in {"forged"} : miniappAuthVerify(ip, s, d)
  \/ authCleanup

SpecRate == Init /\ [][NextRate]_vars

\* the routes of server.ts, with and without a limiter
NextRoutes ==
  \/ rlTick
  \/ \E ip \in Origins, s \in Subjects \cup {None} : sessionRequestId(ip, s)
  \/ \E s \in Subjects : generateLoginToken(s)
  \/ \E t \in Secrets \cup {None} : postValidateToken(t)
  \/ sessionCleanup

SpecRoutes == Init /\ [][NextRoutes]_vars

\* ------------------------------------------- the routes and their audit log
\* POST /login/handshake/consume, rid = None standing for a body without rid
\* or without device: that request is answered 400 before anything is called
\* or logged.  Otherwise the handler calls ridService.verifyAndConsumeRid,
\* passes one entry to auditLog.log and answers.
postHandshakeConsume(rid) ==
  LET r == verifyAndConsumeRid(rid) IN
  IF rid = None
    THEN /\ lastReq' = [route |-> "/login/handshake/consume", admission |-> "none",
                        status |-> 400, retry_after |-> 0, op |-> FALSE, logs |-> <<>>]
         /\ lastReq' # lastReq
         /\ UNCHANGED <<now, tokens, pendingRIDs, pendingLogins, ridFile, rids, issued,
                        history, reqs, disk, handoff, rate, audit>>
  ELSE /\ audit.logged < MaxLog
       /\ ConsumeRidStep(rid)
       /\ audit' = auditAfter(handshakeConsumeLogs(r))
       /\ lastReq' = [route |-> "/login/handshake/consume", admission |-> "none",
                      status |-> IF r.valid THEN 200
                                 ELSE IF r.error = "already_used" THEN 409 ELSE 401,
                      retry_after |-> 0, op |-> TRUE, logs |-> handshakeConsumeLogs(r)]

\* The three miniapp routes that log without a limiter in front of them and
\* without a credential service behind them.  None of their entries is
\* critical: log() pushes the entry and does not flush, so the disk is not
\* touched.  A request the handler answers 400 is not logged.
Answered(route, status, logs) ==
  /\ lastReq' = [route |-> route, admission |-> "none", status |-> status,
                 retry_after |-> 0, op |-> FALSE, logs |-> logs]
  /\ IF logs = <<>> THEN lastReq' # lastReq /\ UNCHANGED audit
     ELSE audit.logged < MaxPlain /\ audit' = auditAfter(logs)
  /\ UNCHANGED <<now, tokens, pendingRIDs, pendingLogins, ridFile, rids, issued,
                 history, reqs, disk, handoff, rate>>

\* req.body of POST /miniapp/referrals/track: source present or not,
\* tg_user_id as the client sent it (ref is tested as source is)
ReferralBodies == [ref : {TRUE}, source : BOOLEAN, tg_user_id : Claimed]
\* POST /miniapp/referrals/track
referralsTrack(body) ==
  IF ~body.ref \/ ~body.source \/ body.tg_user_id = None
    THEN Answered("/miniapp/referrals/track", 400, <<>>)
  ELSE Answered("/miniapp/referrals/track", 200,
                <<[action |-> "referral_tracked", tg_id |-> body.tg_user_id,
                   status |-> "success"]>>)

\* req.body of POST /miniapp/feedback/submit: category absent, one of the
\* list or another word; message absent, of at most 1000 characters or
\* longer; at most one of the three fields is not in order
FeedbackBodies ==
  {b \in [category : {"", "bug", "praise"}, message : {"", "short", "long"},
          tg_user_id : Claimed] :
     (IF b.category # "bug" THEN 1 ELSE 0) + (IF b.message # "short" THEN 1 ELSE 0)
       + (IF b.tg_user_id = None THEN 1 ELSE 0) <= 1}
\* POST /miniapp/feedback/submit (the ticket id goes into the context of the
\* entry, which is left out)
feedbackSubmit(body) ==
  IF body.category = "" \/ body.message = "" \/ body.tg_user_id = None
    THEN Answered("/miniapp/feedback/submit", 400, <<>>)
  ELSE IF body.category \notin {"bug", "idea", "other"}
    THEN Answered("/miniapp/feedback/submit", 400, <<>>)
  ELSE IF body.message = "long"
    THEN Answered("/miniapp/feedback/submit", 400, <<>>)
  ELSE Answered("/miniapp/feedback/submit", 200,
                <<[action |-> "feedback_submitted", tg_id |-> body.tg_user_id,
                   status |-> "success"]>>)

\* GET /miniapp/events/preview, eventId = None standing for a query without
\* event_id; the entry carries no tg_id
eventsPreview(eventId) ==
  IF eventId = None THEN Answered("/miniapp/events/preview", 400, <<>>)
  ELSE Answered("/miniapp/events/preview", 200,
                <<[action |-> "event_preview_viewed", tg_id |-> None,
                   status |-> "success"]>>)

\* POST /handshake/claim up to its response or to its await: a response sent
\* at once is kept in lastReq; a handler that awaits the identity backend has
\* sent none.  The handler makes no auditLog.log call on any of its paths.
\* (op: a method of a credential service was called; the claim-code branch
\* throws before it calls one.)
postHandshakeClaim(body) ==
  /\ handshakeBeginStep(body)
  /\ lastReq' = IF handshakeAuthCall(body) # {} THEN lastReq
                ELSE LET o == handshakeClaim(body) IN
                     [route |-> "/handshake/claim", admission |-> "none",
                      status |-> handshakeResponse(body, TRUE),
                      retry_after |-> 0,
                      op |-> ~(o.mode = "claimCode" /\ o.hash = NoHash),
                      logs |-> <<>>]
  /\ UNCHANGED reqs

\* the route whose handler awaited the call
routeOf(call) ==
  IF call.cid[1] = "direct" THEN "/functions/v1/auth-telegram" ELSE "/handshake/claim"

\* authenticateTelegramUser returns and the handler sends its response, which
\* is kept in lastReq; it logs nothing.  The handler of /handshake/claim has
\* called claimPendingRID before its await, that of
\* /functions/v1/auth-telegram calls no credential service.
postBackendReturns(call, authOk) ==
  /\ backendReturnsStep(call, authOk)
  /\ replies' = replies \cup {[cid |-> call.cid, status |-> replyOf(call, authOk)]}
  /\ lastReq' = [route |-> routeOf(call), admission |-> "none",
                 status |-> replyOf(call, authOk),
                 retry_after |-> 0, op |-> routeOf(call) = "/handshake/claim",
                 logs |-> <<>>]

\* The auth boundary of the miniapp and the audit log behind it.  The
\* requests come from one client that names no user beside initData: what
\* the handler logs does not depend on the limiter key.  They arrive within
\* one window of the limiter, which admits the first authMaxRequests of them.
Client == 1
NextBoundary ==
  \/ \E d \in InitData : miniappAuthVerify(Client, None, d)
  \/ \E b \in ReferralBodies : referralsTrack(b)
  \/ \E b \in FeedbackBodies : feedbackSubmit(b)
  \/ \E e \in {None, 1} : eventsPreview(e)
  \/ periodicFlush
  \/ \E fault \in AuditFaults : DiskFails(fault)
  \/ DiskRecovers

SpecBoundary == Init /\ [][NextBoundary]_vars

\* the routes that resolve a handshake and the audit log behind them
NextOutcome ==
  \/ \E s \in Subjects : generateLoginToken(s)
  \/ \E t \in Secrets \cup {None} : postValidateToken(t)
  \/ \E s \in Subjects : generatePendingRID(s)
  \/ \E b \in Requests : postHandshakeClaim(b)
  \/ \E call \in pendingAuth, authOk \in BOOLEAN : postBackendReturns(call, authOk)
  \/ \E s \in Subjects : sessionRequestId(Client, s)
  \/ \E r \in Secrets \cup {None} : postHandshakeConsume(r)
  \/ \E b \in ReferralBodies : referralsTrack(b)
  \/ \E b \in FeedbackBodies : feedbackSubmit(b)
  \/ \E e \in {None, 1} : eventsPreview(e)
  \/ periodicFlush

SpecOutcome == Init /\ [][NextOutcome]_vars

\* ------------------------------------------------- /start and its handshakes
\* startCommandHandler of a user whose ctx.from.id is telegramId, as the bot
\* runs it: the module assigns the name twice and the later assignment is the
\* one bot.command('start', ..) registers.  It calls
\* tokenService.generateClaimCode and replies with the code and a link that
\* carries the hash of the code; it issues no pending RID.  (An update
\* without ctx.from.id is answered and changes nothing.)
startCommandHandler(telegramId, claimCode) == generateClaimCode(telegramId, claimCode)

\* /start, the routes of the handshake, and TokenService.generatePendingRID,
\* the issuer of the RIDs that /handshake/claim claims
NextStart ==
  \/ Tick
  \/ \E s \in Subjects, c \in Codes : startCommandHandler(s, c)
  \/ \E s \in Subjects : generatePendingRID(s)
  \/ \E h \in CodeHashes : verifyPin(h)
  \/ \E b \in {x \in Requests : Guessable(16, x.rid)} : handshakeBegin(b)
  \/ \E call \in pendingAuth, authOk \in BOOLEAN : backendReturns(call, authOk)
  \/ Cleanup

SpecStart == Init /\ [][NextStart]_vars

\* the setInterval of startPeriodicFlush keeps firing: a non-empty buffer is
\* flushed sooner or later
SpecFlush == SpecOutcome /\ WF_vars(periodicFlush)

\* ===================================================================== claims
\* what a consume / claim / redeem call on `key` of registry `kind` returns now
ConsumeResult(kind, key) ==
  IF kind = "token" THEN verifyAndConsumeToken(key)
  ELSE IF kind = "rid" THEN claimPendingRID(key)
  ELSE IF kind = "mini" THEN verifyAndConsumeRid(key)
  ELSE claimCodeResult(key)

\* credential c still has its record in its registry
Held(c) ==
  /\ book[c].key \in DOMAIN Registry(c[1])
  /\ c[1] = "code" => pendingLogins[book[c].key].id = c[2]

\* no later credential was issued under the secret of c
Current(c) ==
  \A d \in DOMAIN book : (d[1] = c[1] /\ book[d].key = book[c].key) => d[2] <= c[2]

\* a step keeps the consumed marker of every record it keeps
MarkersStay ==
  /\ \A t \in DOMAIN tokens \cap DOMAIN tokens' : tokens[t].used => tokens'[t].used
  /\ \A r \in DOMAIN pendingRIDs \cap DOMAIN pendingRIDs' :
       pendingRIDs[r].claimed => pendingRIDs'[r].claimed
  /\ \A r \in DOMAIN rids \cap DOMAIN rids' : rids[r].used => rids'[r].used
  /\ \A h \in DOMAIN pendingLogins \cap DOMAIN pendingLogins' :
       pendingLogins[h].usedAt # NoDate => pendingLogins'[h].usedAt = pendingLogins[h].usedAt

\* the successful consume calls made so far on the credentials of set S
RECURSIVE Successes(_)
Successes(S) ==
  IF S = {} THEN 0
  ELSE LET c == CHOOSE x \in S : TRUE IN wins[c] + Successes(S \ {c})

\* C1: on every secret, of every kind, at most one consume call ever returns
\* success, whatever was issued in between, and a step never unsets the
\* consumed marker (used, claimed, usedAt) of a record that it leaves in its
\* registry.
CE_C1 ==
  /\ [](\A c \in DOMAIN book :
         Successes({d \in DOMAIN book : d[1] = c[1] /\ book[d].key = book[c].key}) <= 1)
  /\ [][MarkersStay]_vars

\* every racing handler has sent its response
RaceOver == \A h \in DOMAIN reqs : reqs[h].st = "done"
RaceCid == <<reqs[1].kind, reqs[1].key>>
\* C2: when NHandlers handlers were handed the same unconsumed secret, each
\* ran before its expiry time and all have answered, the consume (claim) call
\* of exactly one of them returned success and that of every other one the
\* already-used / already-claimed error.  /api/validate-token answers 200
\* with that result; /handshake/claim answers the losers 401, and the winner
\* with what the identity backend made of the claimed RID (200, or 500: C12).
Thm_C2 ==
  (RaceOver /\ \A h \in DOMAIN reqs : reqs[h].intime)
    => /\ Cardinality({h \in DOMAIN reqs : reqs[h].res = "ok"}) = 1
       /\ \A h \in DOMAIN reqs :
            /\ reqs[h].res \in {"ok"} \cup AlreadyErrors
            /\ reqs[h].kind = "token" => reqs[h].status = 200
            /\ reqs[h].kind = "rid" =>
                 reqs[h].status \in (IF reqs[h].res = "ok" THEN {200, 500} ELSE {401})
\* a finished race for a RID: the winner got the RID's owner and was answered
\* 200 after the losers had been answered already claimed
W_C2 == /\ RaceOver
        /\ reqs[1].kind = "rid"
        /\ \E h \in DOMAIN reqs : /\ reqs[h].res = "ok"
                                   /\ reqs[h].who = book[RaceCid].who
                                   /\ reqs[h].status = 200
        /\ \E h \in DOMAIN reqs : reqs[h].res = "RID already claimed" /\ reqs[h].status = 401

\* C3: once a consume call on a secret has succeeded, a later consume call on
\* that secret does not succeed: it returns AlreadyUsed / AlreadyClaimed, in
\* every later state, after the expiry time as well.  (The formula asks for
\* less than the claim where a sweep has removed the record: there it accepts
\* NotFound.)
CE_C3 ==
  \A c \in DOMAIN book :
    wins[c] >= 1 =>
      ConsumeResult(c[1], book[c].key).error \in
        (IF book[c].key \in DOMAIN Registry(c[1]) THEN AlreadyErrors ELSE NotFoundErrors)

\* C4 as stated: a credential that was never consumed and has not been presented
\* since it expired returns Expired when it is presented, whatever sweeps ran.
CE_C4 ==
  \A c \in DOMAIN book :
    (wins[c] = 0 /\ now > book[c].exp /\ c \notin late /\ Current(c))
      => ConsumeResult(c[1], book[c].key).error \in ExpiredErrors

\* C5 as stated: no consume / claim / redeem / verifyPin call succeeds at a
\* clock value now >= expiresAt.
CE_C5 ==
  /\ \A k \in Kinds : \A key \in DOMAIN Registry(k) :
       ConsumeResult(k, key).valid => now < Registry(k)[key].expiresAt
  /\ \A h \in DOMAIN pendingLogins :
       verifyPinResult(h).valid => now < pendingLogins[h].expiresAt

\* C6 as stated: a successful redeem is preceded by a successful verifyPin on the
\* same record, and redeeming a record whose pinVerified is false returns
\* NotPinVerified.
CE_C6 ==
  \A h \in DOMAIN pendingLogins :
    /\ claimCodeResult(h).valid => CodeCid(h) \in pinned
    /\ ~pendingLogins[h].pinVerified => claimCodeResult(h).error = "Code not verified"
\* C6 as amended: a successful redeem is preceded by a successful verifyPin on
\* the same record, and redeeming a record whose pinVerified is false fails:
\* with NotPinVerified while now <= expiresAt, with Expired after that.
Thm_C6 ==
  /\ \A h \in DOMAIN pendingLogins :
       /\ claimCodeResult(h).valid => CodeCid(h) \in pinned
       /\ ~pendingLogins[h].pinVerified =>
            claimCodeResult(h).error = (IF now > pendingLogins[h].expiresAt
                                          THEN "Code expired" ELSE "Code not verified")
  /\ \A c \in DOMAIN wins : (c[1] = "code" /\ wins[c] >= 1) => c \in pinned
\* a redeemed claim code, which verifyPin had accepted
W_C6 == \E c \in DOMAIN wins : c[1] = "code" /\ wins[c] = 1 /\ c \in pinned

CE_C8 ==
  \A s \in Subjects :
    LET p == getLatestPendingRID(s) IN
    p.rid # None => /\ pendingRIDs[p.rid].telegramId = s
                    /\ ~pendingRIDs[p.rid].claimed
                    /\ now < pendingRIDs[p.rid].expiresAt

SubjectOnly(s) == [claimCode |-> NoCode, rid |-> None, telegramId |-> s]
\* C9 as stated: a handshake that carries only subject s claims nothing, or a RID
\* issued for s, and hands no subject but s to the identity backend.
CE_C9 ==
  \A s \in Subjects :
    LET o == handshakeClaim(SubjectOnly(s)) IN
    /\ o.rid # None => book[<<"rid", o.rid>>].who = s
    /\ o.status = 0 => o.targetTelegramId = s

ModeOf(body) ==
  IF body.claimCode # NoCode THEN "claimCode"
  ELSE IF body.rid # None THEN "rid"
  ELSE IF body.telegramId # None THEN "telegramId"
  ELSE "global"
\* C10 as stated: the handler runs the one mode its inputs select, claim code
\* before RID before subject before nothing; the claim-code mode redeems the
\* code (claimCode on its hash) and touches no RID; every other mode leaves the
\* claim codes alone and touches at most the RID it claims.
CE_C10 ==
  \A b \in Bodies :
    LET o == handshakeClaim(b) IN
    /\ o.mode = ModeOf(b)
    /\ ModeOf(b) = "claimCode" =>
         /\ handshakePendingRIDs(b) = pendingRIDs
         /\ handshakePendingLogins(b) =
              pendingLoginsAfter(Sha256(b.claimCode), claimCodeResult(Sha256(b.claimCode)))
    /\ ModeOf(b) # "claimCode" =>
         /\ handshakePendingLogins(b) = pendingLogins
         /\ \A r \in DOMAIN pendingRIDs \ {o.rid} :
              r \in DOMAIN handshakePendingRIDs(b)
                /\ handshakePendingRIDs(b)[r] = pendingRIDs[r]

CredentialErrors ==
  NotFoundErrors \cup AlreadyErrors \cup ExpiredErrors
    \cup {"Code not verified", "No pending RID found (link may have expired)"}

\* the credential operation of the mode the body selects is rejected
ModeFails(body) ==
  IF ModeOf(body) = "claimCode" THEN ~claimCodeResult(Sha256(body.claimCode)).valid
  ELSE IF ModeOf(body) = "rid" THEN ~claimPendingRID(body.rid).valid
  ELSE getLatestPendingRID(body.telegramId).rid = None

\* C11: a request whose selected mode fails, at its lookup or at its claim,
\* is answered with an error status; the handler has run that mode only, has
\* consumed no claim code and claimed no RID, and makes no call to the
\* identity backend.
Thm_C11 ==
  \A b \in Bodies :
    LET o == handshakeClaim(b) IN
    (ModeFails(b) \/ ~o.r.valid \/ o.status # 0) =>
         /\ o.status # 0
         /\ o.status \in {401, 404, 500}
         /\ handshakeResponse(b, TRUE) = o.status
         /\ handshakeAuthCall(b) = {}
         /\ o.mode = ModeOf(b)
         /\ o.mode = "claimCode" => o.rid = None
         /\ o.mode = "rid" => o.rid = b.rid
         /\ pendingLoginsOf(o) = pendingLogins
         /\ LET after == pendingRIDsOf(o) IN
            \A r \in DOMAIN after : after[r] = pendingRIDs[r]
\* a request with a claimed RID is rejected while another RID is pending
W_C11 ==
  \E b \in Bodies :
    /\ b.claimCode = NoCode
    /\ handshakeClaim(b).r.error = "RID already claimed"
    /\ handshakeClaim(b).status = 401
    /\ \E r \in DOMAIN pendingRIDs : isPending(r)

\* C12 as stated: after a failed call of the identity backend a retry of the
\* handshake with the same credential fails as already used.
CE_C12 ==
  \A rp \in replies :
    rp.status = 500 => ConsumeResult(rp.cid[1], book[rp.cid].key).error \in AlreadyErrors
\* C12 as amended: the identity backend is called only for a credential that
\* has been consumed; when the call fails the response is 500, a status no
\* credential error has, and the credential stays consumed: a retry with it
\* never succeeds, it is answered already claimed for as long as the record is
\* kept, which is at least until it expires, and not found once a sweep has
\* removed the expired, claimed record.
Thm_C12 ==
  /\ \A call \in {x \in pendingAuth : routeOf(x) = "/handshake/claim"} :
       /\ wins[call.cid] >= 1
       /\ call.telegramId = book[call.cid].who
       /\ Held(call.cid) => Marked(call.cid[1], Registry(call.cid[1])[book[call.cid].key])
  /\ \A rp \in replies :
       rp.status = 500 =>
         LET r == ConsumeResult(rp.cid[1], book[rp.cid].key) IN
         /\ wins[rp.cid] = 1
         /\ ~r.valid
         /\ r.error \in (IF Held(rp.cid) THEN AlreadyErrors ELSE NotFoundErrors)
         /\ now <= book[rp.cid].exp => Held(rp.cid)
  /\ \A b \in Bodies :
       handshakeClaim(b).r.error \in CredentialErrors
         => handshakeResponse(b, FALSE) \in {401, 404} \ {authReply(FALSE)}
\* the backend call for a claimed RID failed and a retry is answered already
\* claimed
W_C12 ==
  \E rp \in replies :
    /\ rp.status = 500
    /\ rp.cid[1] = "rid"
    /\ claimPendingRID(book[rp.cid].key).error = "RID already claimed"

\* ------------------------------------------------------------ rate limiting
\* the window of key k of a limiter is open: its reset time is not reached
Open(k) == rnow < windows[k].start + windowMs

StoreOf(limiter) == IF limiter = "auth" THEN authStore ELSE sessionStore

\* C13: in every window of every key the limiter admitted the first
\* maxRequests calls and no other: the number of calls admitted is the number
\* of calls made, capped at maxRequests, after every call.  A call made at or
\* after the reset time of the window before it opens a new window, is
\* admitted, and leaves the entry of the key with count 1 and a reset time one
\* windowMs later; while a window is open the entry of its key carries the
\* reset time of that window.
Thm_C13 ==
  /\ lastReq.admission = "denied" =>
       /\ lastReq.status = 429
       /\ lastReq.retry_after \in 1..windowMs
  /\ \A k \in DOMAIN windows :
    LET w == windows[k]
        max == maxRequestsOf(k[1]) IN
    /\ w.admitted = IF w.calls <= max THEN w.calls ELSE max
    /\ w.calls >= 1
    /\ Open(k) =>
         /\ k[2] \in DOMAIN StoreOf(k[1])
         /\ StoreOf(k[1])[k[2]].resetAt = w.start + windowMs
         /\ w.calls = 1 => StoreOf(k[1])[k[2]].count = 1

\* a call was denied in a window, and the first call made exactly at the reset
\* time of that window has opened the next one
W_C13 ==
  \E k \in DOMAIN windows :
    /\ windows[k].before > maxRequestsOf(k[1])
    /\ windows[k].start = windowMs
    /\ windows[k].calls = 1
    /\ windows[k].admitted = 1
    /\ lastReq.admission = "admitted"

\* C14: the stored count of an entry is never above maxRequests.
CE_C14 ==
  \A limiter \in Limiters :
    \A key \in DOMAIN StoreOf(limiter) :
      StoreOf(limiter)[key].count <= maxRequestsOf(limiter)

\* the calls of /miniapp/auth/verify admitted in the open windows of the keys
\* in K; all of them were made less than one windowMs ago
RECURSIVE AdmittedIn(_)
AdmittedIn(K) ==
  IF K = {} THEN 0
  ELSE LET key == CHOOSE x \in K : TRUE IN
       (IF <<"auth", key>> \in DOMAIN windows /\ Open(<<"auth", key>>)
          THEN windows[<<"auth", key>>].admitted ELSE 0)
       + AdmittedIn(K \ {key})

\* C15: within one window length the combined-key limiter admits at most
\* maxRequests requests of one origin, whatever subjects they claim, and at
\* most maxRequests requests claiming one subject, whatever their origins.
CE_C15 ==
  /\ \A ip \in Origins :
       AdmittedIn({combinedKey(ip, c) : c \in Claimed}) <= authMaxRequests
  /\ \A c \in Claimed \ {None} :
       AdmittedIn({combinedKey(ip, c) : ip \in Origins}) <= authMaxRequests

\* C16: a request reaches a credential registry only after a limiter has
\* admitted it, and a denied request is answered 429 with a retry_after and
\* reaches no registry.
CE_C16 ==
  /\ lastReq.op => lastReq.admission = "admitted"
  /\ lastReq.admission = "denied" =>
       /\ lastReq.status = 429
       /\ lastReq.retry_after > 0
       /\ ~lastReq.op

\* ------------------------------------------------- persistence of the RIDs
\* C17: when generatePendingRID or claimPendingRID returns, the registry that
\* .rids.json holds is the registry in memory, whatever the file system did
\* with the write.
CE_C17 ==
  /\ \A s \in Subjects :
       TotalIssued < MaxIssue =>
         loadRIDsFromFile(saveRIDsToFile(pendingRIDsWith(s))) = pendingRIDsWith(s)
  /\ \A rid \in Secrets :
       LET r == claimPendingRID(rid) IN
       loadRIDsFromFile(ridFileAfter(rid, r)) = pendingRIDsAfter(rid, r)

\* C18: .rids.json is always a complete snapshot, the one before a write or
\* the one after it, and never a part of one.
CE_C18 == ridFile.state \in {"absent", "complete"}

\* C19: a restart keeps every RID as it was: a RID is claimed successfully at
\* most once over all the lives of the process; until it expires a claimed
\* RID is answered 'RID already claimed' and an unclaimed one can be claimed
\* for the subject it was issued for; and a record in the registry carries the
\* subject, the expiry and the claimed flag the RID had before.
CE_C19 ==
  \A c \in DOMAIN book :
    c[1] = "rid" =>
      LET rid == book[c].key
          r == claimPendingRID(rid) IN
      /\ wins[c] <= 1
      /\ (wins[c] >= 1 /\ now <= book[c].exp) => r.error = "RID already claimed"
      /\ (wins[c] = 0 /\ now <= book[c].exp) => r = Ok(book[c].who)
      /\ rid \in DOMAIN pendingRIDs =>
           /\ pendingRIDs[rid].telegramId = book[c].who
           /\ pendingRIDs[rid].expiresAt = book[c].exp
           /\ pendingRIDs[rid].claimed = (wins[c] >= 1)

\* C20: a sweep removes only records that are expired and consumed.  A record
\* leaves its registry in three ways: a sweep removes it, a call that finds it
\* expired evicts it, or a later credential is stored under its secret.  So
\* the record of a credential nobody has consumed, that was not presented
\* after its expiry and whose secret was not issued again, is in its registry,
\* and so is the record of a consumed credential that has not expired.
CE_C20 ==
  \A c \in DOMAIN book :
    /\ (wins[c] = 0 /\ c \notin late /\ Current(c)) => Held(c)
    /\ (wins[c] >= 1 /\ now <= book[c].exp /\ Current(c)) => Held(c)
\* --------------------------------------------------------------- audit log
\* the n-th entry passed to log() is in the audit file
Durable(n) == \E i \in DOMAIN audit.logFile : audit.logFile[i].n = n

\* C21: every request to /miniapp/auth/verify ends in a security-critical
\* event (verification success, verification failure, invalid signature, or a
\* denial by the rate limiter); while the file system accepts writes, right
\* after the request is handled an entry for it has been logged and is in
\* the audit file.
CE_C21 ==
  [][(limited' = limited + 1 /\ disk = "ok")
       => /\ lastReq'.logs # <<>>
          /\ audit'.logged = audit.logged + 1
          /\ Durable(audit.logged)']_vars

\* C22: the in-memory buffer is a bounded ring.  Its length never exceeds the
\* ceiling; a log() call made at the ceiling drops the oldest entry and keeps
\* the others in their order; and an entry leaves the buffer only as the
\* oldest one, dropped by a log() call made at the ceiling.
CE_C22 ==
  [][LET buf == audit.inMemoryLogs
         after == audit'.inMemoryLogs
         atCeiling == Len(buf) = maxInMemory /\ audit'.logged = audit.logged + 1 IN
     /\ Len(after) <= maxInMemory
     /\ atCeiling /\ after # <<>> => SubSeq(after, 1, maxInMemory - 1) = Tail(buf)
     /\ \A i \in DOMAIN buf :
          \/ \E j \in DOMAIN after : after[j] = buf[i]
          \/ i = 1 /\ atCeiling]_vars

\* the routes that resolve a handshake or consume a login token
ResolutionRoutes == {"/handshake/claim", "/api/validate-token", "/login/handshake/consume"}

\* the entry the last log() call pushed: the newest of the buffer, or of the
\* file when the buffer has been flushed
LastLogged ==
  IF audit.inMemoryLogs # <<>> THEN audit.inMemoryLogs[Len(audit.inMemoryLogs)]
  ELSE audit.logFile[Len(audit.logFile)]

\* C23: every request to a resolution route appends exactly one audit entry,
\* with status success when the request is answered 200 and failed otherwise.
CE_C23 ==
  [][(lastReq' # lastReq /\ lastReq'.route \in ResolutionRoutes)
       => /\ audit'.logged = audit.logged + 1
          /\ LastLogged'.n = audit'.logged
          /\ LastLogged'.status = (IF lastReq'.status = 200 THEN "success" ELSE "failed")]_vars

\* C27: a write failure loses no entry.  An entry leaves the buffer only as
\* the oldest one dropped by a log() call made at the ceiling, or with a
\* flush after which it is a line of the audit file; in particular a flush
\* that fails leaves every buffered entry in the buffer.
CE_C27 ==
  [][LET buf == audit.inMemoryLogs
         after == audit'.inMemoryLogs
         atCeiling == Len(buf) = maxInMemory /\ audit'.logged = audit.logged + 1 IN
     \A i \in DOMAIN buf :
       \/ \E j \in DOMAIN after : after[j] = buf[i]
       \/ i = 1 /\ atCeiling
       \/ (\E k \in DOMAIN audit'.logFile : audit'.logFile[k].n = buf[i].n)]_vars

\* ------------------------------------------------ subjects and one-time use
\* C24: whenever presenting the secret of an issued credential succeeds, the
\* call returns the subject the credential was issued for, whatever was
\* issued or consumed in between.
CE_C24 ==
  \A c \in DOMAIN book :
    LET r == ConsumeResult(c[1], book[c].key) IN
    r.valid => r.telegramId = book[c].who

\* C25: /login/handshake/consume returns a session only for a RID that is in
\* the registry, unexpired (now < expiresAt) and not consumed; each miniapp RID
\* yields at most one session; and a consumed RID that is still in the registry
\* is answered already_used.
CE_C25 ==
  /\ \A rid \in Secrets :
       verifyAndConsumeRid(rid).valid
         => /\ rid \in DOMAIN rids
            /\ now < rids[rid].expiresAt
            /\ ~rids[rid].used
  /\ \A c \in DOMAIN wins :
       c[1] = "mini"
         => /\ wins[c] <= 1
            /\ (wins[c] = 1 /\ book[c].key \in DOMAIN rids)
                 => /\ rids[book[c].key].used
                    /\ verifyAndConsumeRid(book[c].key).error = "already_used"

\* C26: verifyPin releases the display code of a record at most once: once a
\* record is pinVerified (verifyPin has returned its code) or redeemed, a
\* verifyPin call on its hash returns no code.
CE_C26 ==
  \A h \in DOMAIN pendingLogins :
    (pendingLogins[h].pinVerified \/ pendingLogins[h].usedAt # NoDate)
      => verifyPinResult(h).claimCode = NoCode

\* ------------------------------------------------------------- RID lookups
\* the unclaimed, unexpired RIDs of subject s
Unclaimed(s) ==
  {rid \in DOMAIN pendingRIDs : /\ pendingRIDs[rid].telegramId = s
                                /\ ~pendingRIDs[rid].claimed
                                /\ now < pendingRIDs[rid].expiresAt}

\* C28: the lookup for subject s returns nothing when s has no unclaimed,
\* unexpired RID, and otherwise one of them that no other is newer than.
CE_C28 ==
  \A s \in Subjects :
    LET p == getLatestPendingRID(s) IN
    IF Unclaimed(s) = {} THEN p.rid = None
    ELSE /\ p.rid \in Unclaimed(s)
         /\ \A o \in Unclaimed(s) :
              pendingRIDs[o].createdAt <= pendingRIDs[p.rid].createdAt

\* the unclaimed, unexpired RIDs created less than 5 minutes ago
Recent ==
  {rid \in DOMAIN pendingRIDs : /\ ~pendingRIDs[rid].claimed
                                /\ now < pendingRIDs[rid].expiresAt
                                /\ now - pendingRIDs[rid].createdAt < lookupWindow}

\* C29: the global lookup returns nothing when no unclaimed, unexpired RID was
\* created in the last 5 minutes, and otherwise one of these that no other is
\* newer than, together with the subject it was issued for; an unclaimed,
\* unexpired RID created 5 minutes ago or earlier is not returned, and a
\* direct claim of it still succeeds.
Thm_C29 ==
  LET p == getLatestPendingRID(None) IN
  /\ IF Recent = {} THEN p.rid = None /\ p.telegramId = None
     ELSE /\ p.rid \in Recent
          /\ \A o \in Recent : pendingRIDs[o].createdAt <= pendingRIDs[p.rid].createdAt
          /\ p.telegramId = book[<<"rid", p.rid>>].who
  /\ \A rid \in DOMAIN pendingRIDs :
       (/\ ~pendingRIDs[rid].claimed
        /\ now < pendingRIDs[rid].expiresAt
        /\ now - pendingRIDs[rid].createdAt >= lookupWindow)
         => /\ p.rid # rid
            /\ claimPendingRID(rid) = Ok(pendingRIDs[rid].telegramId)

\* two unclaimed, unexpired RIDs, one older than the window: the lookup returns
\* the other one
W_C29 ==
  \E old \in DOMAIN pendingRIDs, new \in DOMAIN pendingRIDs :
    /\ ~pendingRIDs[old].claimed
    /\ now < pendingRIDs[old].expiresAt
    /\ now - pendingRIDs[old].createdAt > lookupWindow
    /\ new \in Recent
    /\ getLatestPendingRID(None).rid = new
    /\ claimPendingRID(old).valid

\* ------------------------------------------------------- effect of verifyPin
\* C30: a verifyPin call that succeeds on the record under hash h leaves that
\* record as it was but for pinVerified, which is true afterwards (so a call on
\* a record already pinVerified changes nothing), and leaves every other
\* claim-code record, the other registries, the RID file and the audit log as
\* they were.
Thm_C30 ==
  [][\A h \in PinHashes :
       (verifyPinResult(h).valid /\ verifyPin(h))
         => /\ DOMAIN pendingLogins' = DOMAIN pendingLogins
            /\ \A k \in DOMAIN pendingLogins \ {h} : pendingLogins'[k] = pendingLogins[k]
            /\ pendingLogins'[h] = [pendingLogins[h] EXCEPT !.pinVerified = TRUE]
            /\ pendingLogins[h].pinVerified => pendingLogins' = pendingLogins
            /\ UNCHANGED <<tokens, pendingRIDs, ridFile, rids, audit>>]_vars

\* verifyPin has accepted one of two unexpired claim-code records: that one is
\* pinVerified and not used, the other one is as issued
W_C30 ==
  \E h \in DOMAIN pendingLogins, k \in DOMAIN pendingLogins :
    /\ h # k
    /\ CodeCid(h) \in pinned
    /\ pendingLogins[h].pinVerified
    /\ pendingLogins[h].usedAt = NoDate
    /\ pendingLogins[h].expiresAt = pendingLogins[h].createdAt + claimCodeTTL
    /\ verifyPinResult(h).valid
    /\ ~pendingLogins[k].pinVerified
    /\ pendingLogins[k].usedAt = NoDate

\* ------------------------------------------------- order of the token tests
\* C31: verifyAndConsumeToken tests absence, then `used`, then expiry.  A
\* secret without a record reports not found; a used token reports already
\* used, also past its expiry, and the call leaves the registry as it was; an
\* unused token past its expiry reports expired and the call removes exactly
\* that record, so that the secret has no record afterwards.
Thm_C31 ==
  \A t \in Secrets :
    LET r == verifyAndConsumeToken(t)
        after == tokensAfter(t, r) IN
    IF t \notin DOMAIN tokens THEN r = Err("Token not found") /\ after = tokens
    ELSE IF tokens[t].used THEN r = Err("Token already used") /\ after = tokens
    ELSE IF now > tokens[t].expiresAt
      THEN /\ r = Err("Token expired")
           /\ after = Drop(tokens, t)
           /\ t \notin DOMAIN after
    ELSE r = Ok(tokens[t].telegramId)

\* one token is used and past its expiry and still answers already used; the
\* other was presented unused past its expiry, was evicted, and answers not
\* found
W_C31 ==
  \E t \in DOMAIN tokens, c \in late :
    /\ tokens[t].used
    /\ now > tokens[t].expiresAt
    /\ verifyAndConsumeToken(t) = Err("Token already used")
    /\ c[1] = "token"
    /\ wins[c] = 0
    /\ book[c].key \notin DOMAIN tokens
    /\ verifyAndConsumeToken(book[c].key) = Err("Token not found")

\* --------------------------------------------------------- effect of issuing
\* C32: a generateClaimCode call leaves every claim-code record that existed
\* before it in the registry with the same subject, pinVerified and usedAt.
CE_C32 ==
  [][issued'["code"] = issued["code"] + 1
       => \A h \in DOMAIN pendingLogins :
            /\ h \in DOMAIN pendingLogins'
            /\ pendingLogins'[h].telegramId = pendingLogins[h].telegramId
            /\ pendingLogins'[h].pinVerified = pendingLogins[h].pinVerified
            /\ pendingLogins'[h].usedAt = pendingLogins[h].usedAt]_vars

\* ------------------------------------------------------- the two RID registries
\* Both registries draw their RIDs with crypto.randomBytes(16), and the values
\* of different calls are different, whichever registry calls.
\* POST /handshake/claim { rid } calls tokenService.claimPendingRID(rid) and
\* POST /login/handshake/consume { rid, device } ridService.verifyAndConsumeRid(rid)
\* with the RID of the body, whichever registry issued it.

\* C33: a RID of the miniapp registry is not found by /handshake/claim and a
\* RID of the handshake registry is not found by /login/handshake/consume; a
\* miniapp RID is consumed only by a /login/handshake/consume step and a
\* pending RID only by a /handshake/claim step; and a step that changes one
\* registry (or the RID file) leaves the other as it was.
Thm_C33 ==
  /\ [](\A c \in DOMAIN book :
          /\ c[1] = "mini" => /\ claimPendingRID(book[c].key) = Err("RID not found")
                               /\ book[c].key \notin DOMAIN pendingRIDs
          /\ c[1] = "rid" => /\ verifyAndConsumeRid(book[c].key) = Err("RID not found")
                              /\ book[c].key \notin DOMAIN rids)
  /\ [][/\ rids' # rids => pendingRIDs' = pendingRIDs /\ ridFile' = ridFile
        /\ (pendingRIDs' # pendingRIDs \/ ridFile' # ridFile) => rids' = rids
        /\ \A c \in DOMAIN wins :
             wins'[c] > wins[c]
               => /\ c[1] = "mini" => ConsumeRid(c[2])
                  /\ c[1] = "rid" => claimRid(c[2])]_vars

\* a miniapp RID consumed by its route and a pending RID claimed by its route,
\* both still in their registries
W_C33 ==
  \E m \in DOMAIN wins, r \in DOMAIN wins :
    /\ m[1] = "mini" /\ r[1] = "rid"
    /\ wins[m] = 1 /\ wins[r] = 1
    /\ m[2] \in DOMAIN rids /\ rids[m[2]].used
    /\ r[2] \in DOMAIN pendingRIDs /\ pendingRIDs[r[2]].claimed
    /\ claimPendingRID(m[2]) = Err("RID not found")
    /\ verifyAndConsumeRid(r[2]) = Err("RID not found")

\* ------------------------------------------------------ effect of a failure
\* C34: a consume / claim / redeem call that fails leaves the registries and
\* the RID snapshot as they were, unless it fails as expired: then it removes
\* the record it looked up from its registry (and, for a pending RID, writes
\* the snapshot of the registry without it) and nothing else.  The first
\* conjunct is about the registry each method leaves whenever it is called,
\* the second about the steps on which a call failed as expired.
Thm_C34 ==
  /\ [](/\ \A t \in Secrets :
            LET r == verifyAndConsumeToken(t) IN
            ~r.valid
              => IF r.error = "Token expired"
                   THEN t \in DOMAIN tokens /\ tokensAfter(t, r) = Drop(tokens, t)
                 ELSE r.error \in {"Token not found", "Token already used"}
                      /\ tokensAfter(t, r) = tokens
        /\ \A rid \in Secrets :
            LET r == claimPendingRID(rid) IN
            ~r.valid
              => IF r.error = "RID expired"
                   THEN /\ rid \in DOMAIN pendingRIDs
                        /\ pendingRIDsAfter(rid, r) = Drop(pendingRIDs, rid)
                        /\ ridFileAfter(rid, r) = saveRIDsToFile(Drop(pendingRIDs, rid))
                 ELSE /\ r.error \in {"RID not found", "RID already claimed"}
                      /\ pendingRIDsAfter(rid, r) = pendingRIDs
                      /\ ridFileAfter(rid, r) = ridFile
        /\ \A h \in CodeHashes :
            LET r == claimCodeResult(h) IN
            ~r.valid
              => IF r.error = "Code expired"
                   THEN h \in DOMAIN pendingLogins
                        /\ pendingLoginsAfter(h, r) = Drop(pendingLogins, h)
                 ELSE r.error \in {"Code not found", "Code already used",
                                   "Code not verified"}
                      /\ pendingLoginsAfter(h, r) = pendingLogins)
  /\ [][late' # late
         => \E c \in late' \ late :
              LET k == book[c].key IN
              /\ late' = late \cup {c}
              /\ c[1] = "token" => /\ tokens' = Drop(tokens, k)
                                   /\ UNCHANGED <<pendingRIDs, pendingLogins, ridFile, rids>>
              /\ c[1] = "rid" => /\ pendingRIDs' = Drop(pendingRIDs, k)
                                 /\ ridFile' = saveRIDsToFile(Drop(pendingRIDs, k))
                                 /\ UNCHANGED <<tokens, pendingLogins, rids>>
              /\ c[1] = "code" => /\ pendingLogins' = Drop(pendingLogins, k)
                                  /\ UNCHANGED <<tokens, pendingRIDs, ridFile, rids>>
              /\ c[1] = "mini" => /\ rids' = Drop(rids, k)
                                  /\ UNCHANGED <<tokens, pendingRIDs, pendingLogins,
                                                 ridFile>>]_vars

\* a pending RID was presented past its expiry and evicted, the snapshot holds
\* the registry without it, and a claim code that is not pinVerified is
\* refused
W_C34 ==
  \E c \in late, h \in DOMAIN pendingLogins :
    /\ c[1] = "rid"
    /\ c[2] \notin DOMAIN pendingRIDs
    /\ ridFile = saveRIDsToFile(pendingRIDs)
    /\ claimPendingRID(c[2]) = Err("RID not found")
    /\ claimCodeResult(h) = Err("Code not verified")

\* ---------------------------------------------------------------- the sweeps
\* record x of registry k expires while the clock of the model still runs
Expiring(k, x) == x \in DOMAIN Registry(k) /\ Registry(k)[x].expiresAt < MaxTime

\* C35: every login token and every RID that is in its registry (and whose
\* expiry the clock reaches) is eventually out of it.
CE_C35 ==
  \A k \in {"token", "rid", "mini"} : \A x \in Secrets :
    Expiring(k, x) ~> (x \notin DOMAIN Registry(k))

\* C36: the cleanup runs of the limiter are not observable.  For every key,
\* the next request is admitted or denied, and given the retry_after, that it
\* would get had cleanup() never run, and it leaves the same entry for its
\* key; the store differs from the never cleaned one only by entries whose
\* window has reset.
Thm_C36 ==
  /\ \A ip \in Origins, s \in Claimed :
       LET key == combinedKey(ip, s)
           m == middleware(authStore, key, authMaxRequests)
           u == middleware(uncleaned, key, authMaxRequests) IN
       /\ m.next = u.next
       /\ m.retry_after = u.retry_after
       /\ m.store[key] = u.store[key]
  /\ DOMAIN authStore \subseteq DOMAIN uncleaned
  /\ \A k \in DOMAIN uncleaned :
       IF k \in DOMAIN authStore THEN authStore[k] = uncleaned[k]
       ELSE rnow >= uncleaned[k].resetAt

\* a cleanup run has deleted an entry, and a request made later was denied
W_C36 ==
  /\ DOMAIN uncleaned # DOMAIN authStore
  /\ lastReq.route = "/miniapp/auth/verify"
  /\ lastReq.admission = "denied"
  /\ lastReq.retry_after > 0

\* the limits a caller passes to the getters
Limits == 0 .. (maxInMemory + 1)

\* the last k entries of a sequence, all of it when it has fewer
Newest(seq, k) == SubSeq(seq, (IF Len(seq) > k THEN Len(seq) - k ELSE 0) + 1, Len(seq))

\* C37: for every limit >= 0, getRecent(limit) is the newest entries of the
\* buffer, at most limit of them, in the order of the buffer, and
\* getForUser(id, limit) the same of the entries whose tg_id is id.
CE_C37 ==
  \A limit \in Limits :
    /\ Len(getRecent(limit)) <= limit
    /\ getRecent(limit) = Newest(audit.inMemoryLogs, limit)
    /\ \A id \in Subjects :
         LET ofUser(entry) == entry.tg_id = id IN
         /\ Len(getForUser(id, limit)) <= limit
         /\ getForUser(id, limit) = Newest(SelectSeq(audit.inMemoryLogs, ofUser), limit)

\* C38: every entry passed to log() is eventually in the audit file, and no
\* entry is in the file twice.
CE_C38 ==
  /\ \A n \in 1 .. MaxLog : (audit.logged >= n) ~> Durable(n)
  /\ [](\A i, j \in DOMAIN audit.logFile :
          audit.logFile[i].n = audit.logFile[j].n => i = j)

====
